---- MODULE Spec2Model ----
(***************************************************************************)
(* A model of suncalc3-ts (src/src/index.ts, and the legacy module in      *)
(* src/unnamed/part_000): the process-wide event table `times`, its alias  *)
(* table `timesDeprecated`, the operations that extend them and the        *)
(* queries that read them.                                                 *)
(*                                                                         *)
(* Numbers.  The program computes in IEEE doubles.  Here a plain number is *)
(* an integer holding the value times Scale (four decimals), or NaN.  A    *)
(* julian day is [d, h, q]: d whole days, h half days and q units of       *)
(* 2^-31 day, which is exactly the spacing of doubles between 2^21 and     *)
(* 2^22, where every julian day of the years 2004..2039 lies.  An epoch-ms *)
(* value is a triple [day, ms, sub]: whole days, whole milliseconds of the *)
(* day and sub units of 2^-12 ms, the spacing of doubles between 2^40 and  *)
(* 2^41 (the same years).                                                  *)
(***************************************************************************)
EXTENDS Integers, Sequences, FiniteSets, TLC

VARIABLES
    times,            \* the event table (index.ts: times)
    timesDeprecated,  \* the alias table (index.ts: timesDeprecated)
    ret               \* the last call: its name, arguments and outcome

vars == <<times, timesDeprecated, ret>>

(***************************************************************************)
(* Bounds of the model.                                                    *)
(***************************************************************************)
MaxCustom == 1        \* successful addTime calls explored
MaxAlias == 1         \* successful addDeprecatedTimeName calls explored
MaxInstants == 40     \* instants explored of each kind
MaxPhaseStep == 6     \* neighbours explored on each side of a phase bound
MaxQuarter == 20      \* quarters of a synodic month explored on each side of the epoch

(***************************************************************************)
(* Fixed-point scale of plain numbers, and NaN.                            *)
(***************************************************************************)
Scale == 10^4
NaN == 0 - (2^30)
IsNaN(x) == x = NaN

(***************************************************************************)
(* The identifier pattern /^(?![0-9])[a-zA-Z0-9$_]+$/ of addTime and       *)
(* addDeprecatedTimeName.                                                  *)
(***************************************************************************)
Digits == {"0", "1", "2", "3", "4", "5", "6", "7", "8", "9"}
Letters ==
    {"a", "b", "c", "d", "e", "f", "g", "h", "i", "j", "k", "l", "m",
     "n", "o", "p", "q", "r", "s", "t", "u", "v", "w", "x", "y", "z",
     "A", "B", "C", "D", "E", "F", "G", "H", "I", "J", "K", "L", "M",
     "N", "O", "P", "Q", "R", "S", "T", "U", "V", "W", "X", "Y", "Z"}
IdentChars == Letters \cup Digits \cup {"$", "_"}
CharAt(s, i) == SubSeq(s, i, i)

\* mutant of EXPtest: the negative lookahead (?![0-9]) is dropped
EXPtestNoLookahead(s) ==
    /\ Len(s) > 0
    /\ \A i \in 1..Len(s) : CharAt(s, i) \in IdentChars

EXPtest(s) ==
    /\ Len(s) > 0
    /\ CharAt(s, 1) \notin Digits
    /\ \A i \in 1..Len(s) : CharAt(s, i) \in IdentChars

(***************************************************************************)
(* The tables as the module constructs them.  Angles are degrees.          *)
(***************************************************************************)
Undefined == "undefined"

TimeDef(a, r, s) ==
    [angle |-> a, riseName |-> r, setName |-> s,
     risePos |-> Undefined, setPos |-> Undefined]

InitTimes ==
    << TimeDef(60000, "goldenHourDawnEnd", "goldenHourDuskStart"),
       TimeDef(-3000, "sunriseEnd", "sunsetStart"),
       TimeDef(-8330, "sunriseStart", "sunsetEnd"),
       TimeDef(-10000, "goldenHourDawnStart", "goldenHourDuskEnd"),
       TimeDef(-40000, "blueHourDawnEnd", "blueHourDuskStart"),
       TimeDef(-60000, "civilDawn", "civilDusk"),
       TimeDef(-80000, "blueHourDawnStart", "blueHourDuskEnd"),
       TimeDef(-120000, "nauticalDawn", "nauticalDusk"),
       TimeDef(-150000, "amateurDawn", "amateurDusk"),
       TimeDef(-180000, "astronomicalDawn", "astronomicalDusk") >>

InitTimesDeprecated ==
    << <<"dawn", "civilDawn">>,
       <<"dusk", "civilDusk">>,
       <<"nightEnd", "astronomicalDawn">>,
       <<"night", "astronomicalDusk">>,
       <<"nightStart", "astronomicalDusk">>,
       <<"goldenHour", "goldenHourDuskStart">>,
       <<"sunrise", "sunriseStart">>,
       <<"sunset", "sunsetEnd">>,
       <<"goldenHourEnd", "goldenHourDawnEnd">>,
       <<"goldenHourStart", "goldenHourDuskStart">> >>

NumBuiltin == Len(InitTimes)
NumBuiltinAlias == Len(InitTimesDeprecated)

RiseSetNames(tbl) ==
    {tbl[i].riseName : i \in 1..Len(tbl)} \cup {tbl[i].setName : i \in 1..Len(tbl)}

AliasNames(dep) == {dep[i][1] : i \in 1..Len(dep)}

\* mutant of SpliceAliases: only the aliases named riseName are removed
SpliceAliasesRiseOnly(dep, riseName, setName) ==
    SelectSeq(dep, LAMBDA e : e[1] # riseName)

\* timesDeprecated after the splice loop of addTime: every alias whose name
\* is riseName or setName removed, the others kept in order
RECURSIVE SpliceAliases(_, _, _)
SpliceAliases(dep, riseName, setName) ==
    IF dep = <<>> THEN <<>>
    ELSE IF Head(dep)[1] = riseName \/ Head(dep)[1] = setName
         THEN SpliceAliases(Tail(dep), riseName, setName)
         ELSE <<Head(dep)>> \o SpliceAliases(Tail(dep), riseName, setName)

(***************************************************************************)
(* Integer helpers.  TLC's integers are 32 bits wide, so a product that    *)
(* would not fit is formed by doubling, keeping quotient and remainder.    *)
(***************************************************************************)
MaxInt == 2^30 + (2^30 - 1)
Abs(x) == IF x < 0 THEN 0 - x ELSE x
Sign(x) == IF x < 0 THEN 0 - 1 ELSE 1
Max(a, b) == IF a >= b THEN a ELSE b
Min(a, b) == IF a <= b THEN a ELSE b

\* one step of a long multiplication in base 2^8: qr is <<quotient,
\* remainder>> of a * b1 divided by c; the result is that of
\* a * (b1 * 2^8 + digit), for 0 < c < 2^22
MulDivStepOf(qr, a, digit, c, t) ==
    <<(2^8) * qr[1] + digit * (a \div c) + t \div c, t % c>>

MulDivStep(qr, a, digit, c) ==
    MulDivStepOf(qr, a, digit, c, (2^8) * qr[2] + digit * (a % c))

\* <<quotient, remainder>> of a * b divided by c, for a >= 0, 0 <= b < 2^31
\* and 0 < c < 2^22
MulDivQR(a, b, c) ==
    MulDivStep(MulDivStep(MulDivStep(MulDivStep(<<0, 0>>, a, b \div (2^24), c),
                                     a, (b \div (2^16)) % (2^8), c),
                          a, (b \div (2^8)) % (2^8), c),
               a, b % (2^8), c)

\* <<quotient, remainder>> of aa * bb divided by c, for aa, bb >= 0
MulDivAbs(aa, bb, c) ==
    IF bb = 0 \/ aa <= MaxInt \div Max(bb, 1)
    THEN <<(aa * bb) \div c, (aa * bb) % c>>
    ELSE MulDivQR(Max(aa, bb), Min(aa, bb), c)

\* the quotient of qr rounded to the nearest integer, with the sign sg
MulDivRound(sg, qr, c) ==
    sg * (IF 2 * qr[2] >= c THEN qr[1] + 1 ELSE qr[1])

\* a * b / c rounded to the nearest integer (halves away from zero), c > 0
MulDiv(a, b, c) ==
    MulDivRound(Sign(a) * Sign(b), MulDivAbs(Abs(a), Abs(b), c), c)

\* the whole square root of 0 <= n < 2^31, found in two steps of 2^8
Isqrt(n) ==
    LET hi == CHOOSE k \in 0..181 :
                  (2^8 * k) * (2^8 * k) <= n
                  /\ (k = 181 \/ (2^8 * (k + 1)) * (2^8 * (k + 1)) > n)
        lo == CHOOSE j \in 0..255 :
                  (2^8 * hi + j) * (2^8 * hi + j) <= n
                  /\ (2^8 * hi + j = 46340
                      \/ (2^8 * hi + j + 1) * (2^8 * hi + j + 1) > n)
    IN  2^8 * hi + lo

(***************************************************************************)
(* Arithmetic of plain numbers (value * Scale, or NaN).                    *)
(***************************************************************************)
FAdd(a, b) == IF IsNaN(a) \/ IsNaN(b) THEN NaN ELSE a + b
FSub(a, b) == IF IsNaN(a) \/ IsNaN(b) THEN NaN ELSE a - b
FNeg(a) == IF IsNaN(a) THEN NaN ELSE 0 - a
FMul(a, b) == IF IsNaN(a) \/ IsNaN(b) THEN NaN ELSE MulDiv(a, b, Scale)
\* x / 0 is an infinity in the program; the only use made of such a
\* quotient is as the argument of acos, which then yields NaN
FDiv(a, b) ==
    IF IsNaN(a) \/ IsNaN(b) \/ b = 0 THEN NaN
    ELSE Sign(b) * MulDiv(a, Scale, Abs(b))
\* Math.sqrt: NaN below zero
FSqrt(a) ==
    IF IsNaN(a) \/ a < 0 THEN NaN ELSE Isqrt(a) * Isqrt(Scale)
\* Math.round: the nearest whole number, halves upward; the result is a
\* whole number, not scaled
FRound(a) == (a + Scale \div 2) \div Scale
\* k * x for a whole number k
FTimes(k, x) == IF IsNaN(x) THEN NaN ELSE k * x

(***************************************************************************)
(* Math.sin, cos, asin, acos on radians: a table of sin at whole degrees,  *)
(* linear between them.                                                    *)
(***************************************************************************)
Pi == 31416
SinTab ==
    << 0, 175, 349, 523, 698, 872, 1045, 1219, 1392, 1564,
       1736, 1908, 2079, 2250, 2419, 2588, 2756, 2924, 3090, 3256,
       3420, 3584, 3746, 3907, 4067, 4226, 4384, 4540, 4695, 4848,
       5000, 5150, 5299, 5446, 5592, 5736, 5878, 6018, 6157, 6293,
       6428, 6561, 6691, 6820, 6947, 7071, 7193, 7314, 7431, 7547,
       7660, 7771, 7880, 7986, 8090, 8192, 8290, 8387, 8480, 8572,
       8660, 8746, 8829, 8910, 8988, 9063, 9135, 9205, 9272, 9336,
       9397, 9455, 9511, 9563, 9613, 9659, 9703, 9744, 9781, 9816,
       9848, 9877, 9903, 9925, 9945, 9962, 9976, 9986, 9994, 9998,
       10000 >>

\* degrees (whole) to thousandths of a degree and back to radians
MilliDeg(r) == MulDiv(r, 180 * 1000, Pi)
FromMilliDeg(md) == MulDiv(md, Pi, 180 * 1000)

\* sin of an angle of the first quadrant, in thousandths of a degree
SinQ(md) ==
    LET dg == md \div 1000
        f == md % 1000
    IN  IF dg >= 90 THEN SinTab[91]
        ELSE SinTab[dg + 1] + ((SinTab[dg + 2] - SinTab[dg + 1]) * f) \div 1000

SinMd(md) ==
    LET m == md % 360000
    IN  IF m <= 90000 THEN SinQ(m)
        ELSE IF m <= 180000 THEN SinQ(180000 - m)
        ELSE IF m <= 270000 THEN 0 - SinQ(m - 180000)
        ELSE 0 - SinQ(360000 - m)

sin(x) == IF IsNaN(x) THEN NaN ELSE SinMd(MilliDeg(x))
cos(x) == IF IsNaN(x) THEN NaN ELSE SinMd(MilliDeg(x) + 90000)

\* the angle of 0..90 degrees whose sin is y (0 <= y <= Scale), in
\* thousandths of a degree
AsinQ(y) ==
    IF y >= SinTab[91] THEN 90000
    ELSE LET dg == CHOOSE k \in 0..89 : SinTab[k + 1] <= y /\ y < SinTab[k + 2]
         IN  dg * 1000 + ((y - SinTab[dg + 1]) * 1000) \div (SinTab[dg + 2] - SinTab[dg + 1])

asin(y) ==
    IF IsNaN(y) \/ Abs(y) > Scale THEN NaN
    ELSE FromMilliDeg(Sign(y) * AsinQ(Abs(y)))

acos(y) ==
    IF IsNaN(y) \/ Abs(y) > Scale THEN NaN
    ELSE FromMilliDeg(90000 - Sign(y) * AsinQ(Abs(y)))

(***************************************************************************)
(* Julian days [d, h, q]: d + h/2 + q/2^31 days, h in {0, 1} and           *)
(* 0 <= q < 2^30.  Sums and differences of two julian days of the same     *)
(* era are exact in doubles, as they are here.                             *)
(***************************************************************************)
Half == 2^30
JD(d, h, q) == [d |-> d, h |-> h, q |-> q]
NaNJ == JD(0, 0, 0 - 1)
IsNaNJ(j) == j.q < 0

JAdd(a, b) ==
    IF IsNaNJ(a) \/ IsNaNJ(b) THEN NaNJ
    ELSE LET qs == a.q + b.q
             cq == IF qs >= Half THEN 1 ELSE 0
             hs == a.h + b.h + cq
         IN  JD(a.d + b.d + hs \div 2, hs % 2, qs - cq * Half)

JSub(a, b) ==
    IF IsNaNJ(a) \/ IsNaNJ(b) THEN NaNJ
    ELSE LET qd == a.q - b.q
             bq == IF qd < 0 THEN 1 ELSE 0
             hd == a.h - b.h - bq
             bh == IF hd < 0 THEN 1 ELSE 0
         IN  JD(a.d - b.d - bh, hd + 2 * bh, qd + bq * Half)

\* a plain number of days (value * Scale) as a julian-day quantity
JFromNum(x) ==
    IF IsNaN(x) THEN NaNJ
    ELSE LET f == x % Scale
             hh == IF 2 * f >= Scale THEN 1 ELSE 0
         IN  JD(x \div Scale, hh, MulDiv(f - hh * (Scale \div 2), Half, Scale \div 2))

\* a julian-day quantity as a plain number of days
JToNum(j) ==
    IF IsNaNJ(j) THEN NaN
    ELSE j.d * Scale + j.h * (Scale \div 2)
         + MulDiv(j.q \div (2^10), Scale \div 2, 2^20)

(***************************************************************************)
(* Epoch milliseconds [day, ms, sub]: day * dayMs + ms + sub/4096.         *)
(***************************************************************************)
dayMs == 86400000
J2000 == 2451545
J0 == 9
SubUnits == 2^12
DayOdd == dayMs \div (2^10)     \* dayMs = 2^10 * 84375

Ms(day, ms, sub) == [day |-> day, ms |-> ms, sub |-> sub]
NaNMs == Ms(0, 0 - 1, 0)
IsNaNMs(v) == v.ms < 0

\* new Date(v): the time value is v truncated to whole milliseconds
\* (TimeClip); an invalid date for NaN
NewDate(v) == IF IsNaNMs(v) THEN NaNMs ELSE Ms(v.day, v.ms, 0)

J1970 == JD(2440587, 1, 0)     \* 2440587.5
J2000J == JD(J2000, 0, 0)

\* x * dayMs for a number of days x (a difference of julian days, exact):
\* the product is rounded to the nearest double (2^-12 ms, halves to even)
DaysToMs(x) ==
    IF IsNaNJ(x) THEN NaNMs
    ELSE LET qr == MulDivQR(x.q, DayOdd, 2^21)
             r9 == qr[2] % (2^9)
             s0 == qr[2] \div (2^9)
             sub == IF r9 > 2^8 \/ (r9 = 2^8 /\ s0 % 2 = 1) THEN s0 + 1 ELSE s0
             m == x.h * (dayMs \div 2) + qr[1] + sub \div SubUnits
         IN  Ms(x.d + m \div dayMs, m % dayMs, sub % SubUnits)

\* mutant of fromJulianDay: the half day of J1970 is dropped (2440587)
fromJulianDayWholeEpoch(j) == DaysToMs(JSub(j, JD(2440587, 0, 0)))

\* (j - J1970) * dayMs
fromJulianDay(j) == DaysToMs(JSub(j, J1970))

\* dateValue / dayMs as the sum that follows it keeps it.  The quotient is
\* rounded to a double (2^-39 day from day 2^13 on, 2^-38 day from day 2^14
\* on; no quotient lies halfway, DayOdd being odd), and the sum of it and a
\* julian day of the epoch is rounded again, to 2^-31 day, halves to even
DayQuotient(dateValue) ==
    LET hh == IF dateValue.ms >= dayMs \div 2 THEN 1 ELSE 0
        qr == MulDivQR(dateValue.ms - hh * (dayMs \div 2), 2^21, DayOdd)
        bits == IF dateValue.day < 2^14 THEN 2^8 ELSE 2^7
        t == (2 * qr[2] * bits + DayOdd) \div (2 * DayOdd)
        q == IF 2 * t > bits \/ (2 * t = bits /\ qr[1] % 2 = 1)
             THEN qr[1] + 1 ELSE qr[1]
    IN  JAdd(JD(dateValue.day, hh, 0), JD(0, q \div Half, q % Half))

\* ((dateValue / dayMs) + J1970) - J2000, dateValue in whole milliseconds
toDays(dateValue) ==
    IF IsNaNMs(dateValue) THEN NaNJ
    ELSE JSub(JAdd(DayQuotient(dateValue), J1970), J2000J)

(***************************************************************************)
(* Arguments.  A number argument is a plain number, NaN, or Missing (the   *)
(* argument left out: undefined).  isNaN(undefined) is true.               *)
(***************************************************************************)
Missing == NaN - 1
isNaN(x) == x = NaN \/ x = Missing
\* a parameter with a default value: the default replaces undefined only
Default(x, dflt) == IF x = Missing THEN dflt ELSE x

(***************************************************************************)
(* The solar formulas of index.ts, lines 177..248.                         *)
(***************************************************************************)
\* rad * x and x * (180 / Math.PI)
rad(x) == IF IsNaN(x) THEN NaN ELSE MulDiv(x, Pi, 180 * Scale)
degr(x) == IF IsNaN(x) THEN NaN ELSE MulDiv(x, 180 * Scale, Pi)

e == rad(234397)

declination(l, b) ==
    asin(FAdd(FMul(sin(b), cos(e)), FMul(FMul(cos(b), sin(e)), sin(l))))

solarMeanAnomaly(d) ==
    rad(FAdd(3575291, IF IsNaN(d) THEN NaN ELSE FMul(9856, d) + MulDiv(d \div 100, 28, 10^6)))

eclipticLongitude(M) ==
    LET C == rad(FAdd(FAdd(FMul(19148, sin(M)), FMul(200, sin(FTimes(2, M)))),
                      FMul(3, sin(FTimes(3, M)))))
        P == rad(1029372)
    IN  FAdd(FAdd(FAdd(M, C), P), Pi)

\* Math.round(d - J0 - lw / (2 * Math.PI)): a whole number of days
julianCycle(d, lw) == FRound(FSub(FSub(d, J0), FDiv(lw, 2 * Pi)))

\* J0 + (Ht + lw) / (2 * Math.PI) + n
approxTransit(Ht, lw, n) ==
    FAdd(FAdd(J0, FDiv(FAdd(Ht, lw), 2 * Pi)), n * Scale)

\* J2000 + ds + 0.0053 * sin(M) - 0.0069 * sin(FTimes(2, L)): a julian day
solarTransitJ(ds, M, L) ==
    IF IsNaN(ds) THEN NaNJ
    ELSE JAdd(J2000J,
              JFromNum(FSub(FAdd(ds, FMul(53, sin(M))), FMul(69, sin(FTimes(2, L))))))

\* acos((sin(h) - sin(phi) * sin(dec)) / (cos(phi) * cos(dec)))
hourAngle(h, phi, dec) ==
    acos(FDiv(FSub(sin(h), FMul(sin(phi), sin(dec))), FMul(cos(phi), cos(dec))))

\* -2.076 * Math.sqrt(height) / 60
observerAngle(height) ==
    LET r == FSqrt(height)
    IN  IF IsNaN(r) THEN NaN ELSE 0 - MulDiv(20760, r, 60 * Scale)

getSetJ(h, lw, phi, dec, n, M, L) ==
    LET w == hourAngle(h, phi, dec)
        a == approxTransit(w, lw, n)
    IN  solarTransitJ(a, M, L)

(***************************************************************************)
(* Dates.  A call reads the zone of the process; the offset east of UTC,   *)
(* in milliseconds, is passed as tz.                                       *)
(***************************************************************************)
MsNorm(day, ms) == Ms(day + ms \div dayMs, ms % dayMs, 0)

\* t.setUTCHours(hh, 0, 0, 0) and t.setHours(hh, 0, 0, 0), hh in hours
SetUTCHours(t, hh) ==
    IF IsNaNMs(t) THEN NaNMs ELSE Ms(t.day, hh * (dayMs \div 24), 0)
SetHours(t, hh, tz) ==
    IF IsNaNMs(t) THEN NaNMs
    ELSE MsNorm(MsNorm(t.day, t.ms + tz).day, hh * (dayMs \div 24) - tz)

(***************************************************************************)
(* Outcomes of a call.                                                     *)
(***************************************************************************)
Threw(msg) == [threw |-> TRUE, error |-> msg]
Returned(v) == [threw |-> FALSE, value |-> v]

\* the julian day a half day after j
HalfDay == JD(0, 1, 0)

(***************************************************************************)
(* getSunTimes, index.ts lines 479..577.  Each const of the code is a      *)
(* parameter of the operator that models the statements after it.          *)
(***************************************************************************)
\* lines 502..504: L, dec and Jnoon, and what the loop reads
SunDayL(lw, phi, dh, n, ds, M, L) ==
    [lw |-> lw, phi |-> phi, dh |-> dh, n |-> n, M |-> M, L |-> L,
     dec |-> declination(L, 0), Jnoon |-> solarTransitJ(ds, M, L)]

\* lines 499..501: ds, M and L
SunDayN(lw, phi, dh, n) ==
    SunDayL(lw, phi, dh, n, approxTransit(0, lw, n),
            solarMeanAnomaly(approxTransit(0, lw, n)),
            eclipticLongitude(solarMeanAnomaly(approxTransit(0, lw, n))))

\* lines 494..498: lw, phi, dh, d and n, for t the noon of the day
SunDay(t, lat, lng, height) ==
    SunDayN(rad(FNeg(lng)), rad(lat), observerAngle(height),
            julianCycle(JToNum(toDays(t)), rad(FNeg(lng))))

\* lines 533..539: the fallback of an entry without solution, and Jrise
SunFallback(Jnoon, Jset0) ==
    LET Jset == IF IsNaNJ(Jset0) THEN JAdd(Jnoon, HalfDay) ELSE Jset0
    IN  [Jset |-> Jset, Jrise |-> JSub(Jnoon, JSub(Jset, Jnoon)),
         valid |-> ~IsNaNJ(Jset0)]

\* lines 529..539: Jset, Jrise and valid of a table entry of angle sa
SunEntry(c, sa) ==
    SunFallback(c.Jnoon,
                getSetJ(rad(FAdd(sa, c.dh)), c.lw, c.phi, c.dec, c.n, c.M, c.L))

\* lines 540..561: the two records of entry i (from 1), the set record
\* written first
SunRecords(result, time, len, i, en) ==
    LET v1 == fromJulianDay(en.Jset)
        v2 == fromJulianDay(en.Jrise)
        setRec == [value |-> NewDate(v1), ts |-> v1, name |-> time.setName,
                   elevation |-> time.angle, julian |-> en.Jset,
                   valid |-> en.valid, pos |-> len + (i - 1) + 1]
        riseRec == [value |-> NewDate(v2), ts |-> v2, name |-> time.riseName,
                    elevation |-> time.angle, julian |-> en.Jrise,
                    valid |-> en.valid, pos |-> len - (i - 1) - 1]
    IN  (time.riseName :> riseRec) @@ (time.setName :> setRec) @@ result

\* mutant of SunLoop: every entry is solved for the angle of the first
\* entry of the table
RECURSIVE SunLoopFirstAngle(_, _, _, _)
SunLoopFirstAngle(result, tbl, c, i) ==
    IF i > Len(tbl) THEN result
    ELSE SunLoopFirstAngle(SunRecords(result, tbl[i], Len(tbl), i,
                                      SunEntry(c, tbl[1].angle)),
                           tbl, c, i + 1)

\* lines 527..562: the loop over the table
RECURSIVE SunLoop(_, _, _, _)
SunLoop(result, tbl, c, i) ==
    IF i > Len(tbl) THEN result
    ELSE SunLoop(SunRecords(result, tbl[i], Len(tbl), i, SunEntry(c, tbl[i].angle)),
                 tbl, c, i + 1)

\* mutant of AliasRecord: the copy is not marked deprecated
AliasRecordUnmarked(result, deprecatedName, originalName) ==
    [nameOrg |-> result[originalName].pos, pos |-> 0 - 2] @@ result[originalName]

\* lines 567..573: the record of one alias
AliasRecord(result, deprecatedName, originalName) ==
    [deprecated |-> TRUE,
     nameOrg |-> result[originalName].pos,
     posOrg |-> IF deprecatedName \in DOMAIN result /\ result[deprecatedName].pos # 0
                THEN result[deprecatedName].pos
                ELSE 0 - 2,
     pos |-> 0 - 2] @@ result[originalName]

\* lines 564..574: the alias records; reading .pos of a canonical name the
\* result does not hold is a TypeError
RECURSIVE AliasLoop(_, _, _)
AliasLoop(result, dep, k) ==
    IF k > Len(dep) THEN Returned(result)
    ELSE IF dep[k][2] \notin DOMAIN result THEN Threw("TypeError")
    ELSE AliasLoop((dep[k][1] :> AliasRecord(result, dep[k][1], dep[k][2])) @@ result,
                   dep, k + 1)

\* lines 505..525: solarNoon and nadir
SunNoonRecords(c, len) ==
    [solarNoon |->
         [value |-> NewDate(fromJulianDay(c.Jnoon)), ts |-> fromJulianDay(c.Jnoon),
          name |-> "solarNoon", julian |-> c.Jnoon,
          valid |-> ~IsNaNJ(c.Jnoon), pos |-> len],
     nadir |->
         [value |-> NewDate(fromJulianDay(JAdd(c.Jnoon, HalfDay))),
          ts |-> fromJulianDay(JAdd(c.Jnoon, HalfDay)),
          name |-> "nadir", julian |-> JAdd(c.Jnoon, HalfDay),
          valid |-> ~IsNaNJ(c.Jnoon), pos |-> (len * 2) + 1]]

\* lines 505..576, given what lines 487..504 computed
SunTimesOf(tbl, dep, c, addDeprecated) ==
    IF addDeprecated
    THEN AliasLoop(SunLoop(SunNoonRecords(c, Len(tbl)), tbl, c, 1), dep, 1)
    ELSE Returned(SunLoop(SunNoonRecords(c, Len(tbl)), tbl, c, 1))

\* lines 487..492: t, the noon of the day of dateValue
NoonOf(dateValue, inUTC, tz) ==
    IF inUTC THEN SetUTCHours(NewDate(dateValue), 12)
    ELSE SetHours(NewDate(dateValue), 12, tz)

getSunTimes(tbl, dep, dateValue, lat, lng, height0, addDeprecated, inUTC, tz) ==
    IF isNaN(lat) THEN Threw("latitude missing")
    ELSE IF isNaN(lng) THEN Threw("longitude missing")
    ELSE SunTimesOf(tbl, dep,
                    SunDay(NoonOf(dateValue, inUTC, tz), lat, lng, Default(height0, 0)),
                    addDeprecated)

(***************************************************************************)
(* getSunTime, index.ts lines 579..636.  Lines 599..608 are lines 494..504 *)
(* of getSunTimes (SunDay).  No fallback here: a NaN Jset stays NaN.       *)
(***************************************************************************)
\* lines 612..635
SunTimePair(angle, Jset, Jrise) ==
    [set |-> [name |-> "set", value |-> NewDate(fromJulianDay(Jset)),
              ts |-> fromJulianDay(Jset), elevation |-> angle, julian |-> Jset,
              valid |-> ~IsNaNJ(Jset), pos |-> 0],
     rise |-> [name |-> "rise", value |-> NewDate(fromJulianDay(Jrise)),
               ts |-> fromJulianDay(Jrise), elevation |-> angle, julian |-> Jrise,
               valid |-> ~IsNaNJ(Jrise), pos |-> 1]]

\* line 611
SunTimeRise(angle, Jnoon, Jset) ==
    SunTimePair(angle, Jset, JSub(Jnoon, JSub(Jset, Jnoon)))

\* mutant of SunTimeOf: the -0.833 degrees of refraction are left out
SunTimeOfNoRefraction(c, angle) ==
    SunTimeRise(angle, c.Jnoon,
                getSetJ(rad(FAdd(angle, c.dh)), c.lw, c.phi, c.dec, c.n, c.M, c.L))

\* lines 609..610: h0 = (angle - 0.833 + dh) * rad, and Jset
SunTimeOf(c, angle) ==
    SunTimeRise(angle, c.Jnoon,
                getSetJ(rad(FAdd(FSub(angle, 8330), c.dh)),
                        c.lw, c.phi, c.dec, c.n, c.M, c.L))

getSunTime(dateValue, lat, lng, elevationAngle, height0, degree0, inUTC, tz) ==
    IF isNaN(lat) THEN Threw("latitude missing")
    ELSE IF isNaN(lng) THEN Threw("longitude missing")
    ELSE IF isNaN(elevationAngle) THEN Threw("elevationAngle missing")
    ELSE Returned(
             SunTimeOf(SunDay(NoonOf(dateValue, inUTC, tz), lat, lng, Default(height0, 0)),
                       IF degree0 THEN rad(elevationAngle) ELSE elevationAngle))

(***************************************************************************)
(* addTime, index.ts lines 425..451, and addDeprecatedTimeName, lines      *)
(* 453..477: the tables after the call and the value returned.             *)
(***************************************************************************)
TablesAfter(tbl, dep, value) == [times |-> tbl, timesDeprecated |-> dep, value |-> value]

\* lines 434..439: the test made against each entry of the table
AddTimeClash(time, riseName, setName) ==
    \/ ~EXPtest(riseName) \/ riseName = time.riseName \/ riseName = time.setName
    \/ ~EXPtest(setName) \/ setName = time.riseName \/ setName = time.setName

\* mutant of addTime: the new entry is put in front of the table
addTimeInFront(tbl, dep, angleAltitude, riseName, setName, degree) ==
    LET isValid == Len(riseName) > 0 /\ Len(setName) > 0 /\ angleAltitude # Missing
    IN  IF ~isValid THEN TablesAfter(tbl, dep, FALSE)
        ELSE IF \E i \in 1..Len(tbl) : AddTimeClash(tbl[i], riseName, setName)
        THEN TablesAfter(tbl, dep, FALSE)
        ELSE LET angleDeg == IF degree THEN angleAltitude ELSE degr(angleAltitude)
             IN  TablesAfter(<<TimeDef(angleDeg, riseName, setName)>> \o tbl,
                             SpliceAliases(dep, riseName, setName), TRUE)

addTime(tbl, dep, angleAltitude, riseName, setName, degree) ==
    LET isValid == Len(riseName) > 0 /\ Len(setName) > 0 /\ angleAltitude # Missing
    IN  IF ~isValid THEN TablesAfter(tbl, dep, FALSE)
        ELSE IF \E i \in 1..Len(tbl) : AddTimeClash(tbl[i], riseName, setName)
        THEN TablesAfter(tbl, dep, FALSE)
        ELSE LET angleDeg == IF degree THEN angleAltitude ELSE degr(angleAltitude)
             IN  TablesAfter(Append(tbl, TimeDef(angleDeg, riseName, setName)),
                             SpliceAliases(dep, riseName, setName), TRUE)

\* mutant of addDeprecatedTimeName: hasOrg is not looked at
addDeprecatedTimeNameAnyOrg(tbl, dep, alternateName, originalName) ==
    LET isValid == Len(alternateName) > 0 /\ Len(originalName) > 0
        clash == \E i \in 1..Len(tbl) :
                     \/ ~EXPtest(alternateName)
                     \/ alternateName = tbl[i].riseName
                     \/ alternateName = tbl[i].setName
    IN  IF ~isValid \/ clash THEN TablesAfter(tbl, dep, FALSE)
        ELSE TablesAfter(tbl, Append(dep, <<alternateName, originalName>>), TRUE)

\* lines 463..470: the loop returns false at the first entry the alias
\* name clashes with; hasOrg is what the entries passed before it gave
addDeprecatedTimeName(tbl, dep, alternateName, originalName) ==
    LET isValid == Len(alternateName) > 0 /\ Len(originalName) > 0
        clash == \E i \in 1..Len(tbl) :
                     \/ ~EXPtest(alternateName)
                     \/ alternateName = tbl[i].riseName
                     \/ alternateName = tbl[i].setName
        hasOrg == \E i \in 1..Len(tbl) :
                      originalName = tbl[i].riseName \/ originalName = tbl[i].setName
    IN  IF ~isValid \/ clash THEN TablesAfter(tbl, dep, FALSE)
        ELSE IF hasOrg
        THEN TablesAfter(tbl, Append(dep, <<alternateName, originalName>>), TRUE)
        ELSE TablesAfter(tbl, dep, FALSE)

(***************************************************************************)
(* The legacy module, src/unnamed/part_000 lines 20..29: J1970 is 2440588  *)
(* there, and fromJulian returns a Date (whole milliseconds).              *)
(***************************************************************************)
LegacyJ1970 == JD(2440588, 0, 0)

\* date.valueOf() / dayMs - 0.5 + J1970
toJulian(date) ==
    IF IsNaNMs(date) THEN NaNJ
    ELSE JAdd(JSub(DayQuotient(date), HalfDay), LegacyJ1970)

\* new Date((j + 0.5 - J1970) * dayMs)
fromJulian(j) == NewDate(DaysToMs(JSub(JAdd(j, HalfDay), LegacyJ1970)))

(***************************************************************************)
(* moonCycles, index.ts lines 303..394, and the loop of                    *)
(* getMoonIllumination that picks the phase, lines 760..767.  A phase      *)
(* value is <<w, a, b, c>>: w + a / 10^5 + b / 10^10 + c / 10^15, the      *)
(* fifteen decimals the table is written with; w < 0 is NaN.               *)
(***************************************************************************)
moonCycles ==
    << [from |-> <<0, 0, 0, 0>>, to |-> <<0, 3386, 31933, 8711>>,
        id |-> "newMoon"],
       [from |-> <<0, 3386, 31933, 8711>>, to |-> <<0, 21613, 68066, 91289>>,
        id |-> "waxingCrescentMoon"],
       [from |-> <<0, 21613, 68066, 91289>>, to |-> <<0, 28386, 31933, 8711>>,
        id |-> "firstQuarterMoon"],
       [from |-> <<0, 28386, 31933, 8711>>, to |-> <<0, 46613, 68066, 91289>>,
        id |-> "waxingGibbousMoon"],
       [from |-> <<0, 46613, 68066, 91289>>, to |-> <<0, 53386, 31933, 8711>>,
        id |-> "fullMoon"],
       [from |-> <<0, 53386, 31933, 8711>>, to |-> <<0, 71613, 68066, 91289>>,
        id |-> "waningGibbousMoon"],
       [from |-> <<0, 71613, 68066, 91289>>, to |-> <<0, 78386, 31933, 8711>>,
        id |-> "thirdQuarterMoon"],
       [from |-> <<0, 78386, 31933, 8711>>, to |-> <<0, 96613, 68066, 91289>>,
        id |-> "waningCrescentMoon"],
       [from |-> <<0, 96613, 68066, 91289>>, to |-> <<1, 0, 0, 0>>,
        id |-> "newMoon"] >>

PhaseNaN == <<0 - 1, 0, 0, 0>>

\* x <= y and x >= y of two phase values; false when one is NaN
PhaseLe(x, y) ==
    /\ x[1] >= 0 /\ y[1] >= 0
    /\ \/ x = y
       \/ \E k \in 1..4 : x[k] < y[k] /\ \A j \in 1..(k - 1) : x[j] = y[j]
PhaseGe(x, y) == PhaseLe(y, x)

\* line 761: phaseValue >= element.from && phaseValue <= element.to
PhaseTest(phaseValue, element) ==
    PhaseGe(phaseValue, element.from) /\ PhaseLe(phaseValue, element.to)

\* mutant of MoonPhaseIndex: the loop does not break, the last match stays
MoonPhaseIndexNoBreak(phaseValue) ==
    IF \E i \in 1..Len(moonCycles) : PhaseTest(phaseValue, moonCycles[i])
    THEN CHOOSE i \in 1..Len(moonCycles) :
             /\ PhaseTest(phaseValue, moonCycles[i])
             /\ \A j \in (i + 1)..Len(moonCycles) : ~PhaseTest(phaseValue, moonCycles[j])
    ELSE 0

\* lines 760..767: the index (from 1) of the first element that passes the
\* test, where the loop breaks; 0 when none does (phase stays undefined)
MoonPhaseIndex(phaseValue) ==
    IF \E i \in 1..Len(moonCycles) : PhaseTest(phaseValue, moonCycles[i])
    THEN CHOOSE i \in 1..Len(moonCycles) :
             /\ PhaseTest(phaseValue, moonCycles[i])
             /\ \A j \in 1..(i - 1) : ~PhaseTest(phaseValue, moonCycles[j])
    ELSE 0

(***************************************************************************)
(* The window scan of getMoonTimes, lines 828..867.  The state of the loop *)
(* is [h0, rise, set, ye, i, done]: rise and set are offsets in hours or   *)
(* Missing (undefined), i is the centre of the next window, done says that *)
(* the loop has been left.  roots, x1 and x2 are those of the last window  *)
(* (x1 and x2 as computed at lines 848 and 849, Missing when d < 0).       *)
(***************************************************************************)
\* a number used as a condition: undefined, 0 and NaN count as false
Truthy(v) == ~(v = Missing \/ v = 0 \/ v = NaN)

\* mutant of MoonCross: a single root is taken to be x1 even when x1 lies
\* below -1
MoonCrossFirstRoot(st, ye, x1, x2) ==
    LET roots == (IF Abs(x1) <= Scale THEN 1 ELSE 0)
                     + (IF Abs(x2) <= Scale THEN 1 ELSE 0)
        w == [st EXCEPT !.ye = ye, !.roots = roots, !.x1 = x1, !.x2 = x2]
    IN  IF roots = 1
        THEN IF st.h0 < 0
             THEN [w EXCEPT !.rise = st.i * Scale + x1]
             ELSE [w EXCEPT !.set = st.i * Scale + x1]
        ELSE IF roots = 2
        THEN [w EXCEPT !.rise = st.i * Scale + (IF ye < 0 THEN x2 ELSE x1),
                       !.set = st.i * Scale + (IF ye < 0 THEN x1 ELSE x2)]
        ELSE w

\* mutant of MoonCross: with two roots the smaller is always the rise
MoonCrossRiseFirst(st, ye, x1, x2) ==
    LET roots == (IF Abs(x1) <= Scale THEN 1 ELSE 0)
                     + (IF Abs(x2) <= Scale THEN 1 ELSE 0)
        x == IF x1 < 0 - Scale THEN x2 ELSE x1
        w == [st EXCEPT !.ye = ye, !.roots = roots, !.x1 = x1, !.x2 = x2]
    IN  IF roots = 1
        THEN IF st.h0 < 0
             THEN [w EXCEPT !.rise = st.i * Scale + x]
             ELSE [w EXCEPT !.set = st.i * Scale + x]
        ELSE IF roots = 2
        THEN [w EXCEPT !.rise = st.i * Scale + x, !.set = st.i * Scale + x2]
        ELSE w

\* lines 849..862, after x1 and x2: the roots within [-1, 1] are counted,
\* x1 is replaced when below -1, and rise and set are assigned
MoonCross(st, ye, x1, x2) ==
    LET roots == (IF Abs(x1) <= Scale THEN 1 ELSE 0)
                     + (IF Abs(x2) <= Scale THEN 1 ELSE 0)
        x == IF x1 < 0 - Scale THEN x2 ELSE x1
        w == [st EXCEPT !.ye = ye, !.roots = roots, !.x1 = x1, !.x2 = x2]
    IN  IF roots = 1
        THEN IF st.h0 < 0
             THEN [w EXCEPT !.rise = st.i * Scale + x]
             ELSE [w EXCEPT !.set = st.i * Scale + x]
        ELSE IF roots = 2
        THEN [w EXCEPT !.rise = st.i * Scale + (IF ye < 0 THEN x2 ELSE x),
                       !.set = st.i * Scale + (IF ye < 0 THEN x ELSE x2)]
        ELSE w

\* lines 844..847: ye, and the roots xe - dx and xe + dx when d >= 0
MoonRoots(st, a, xe, ye, d, dx) ==
    IF IsNaN(d) \/ d < 0
    THEN [st EXCEPT !.ye = ye, !.roots = 0, !.x1 = Missing, !.x2 = Missing]
    ELSE MoonCross(st, ye, FSub(xe, dx), FAdd(xe, dx))

\* lines 842 and 847: ye = (a * xe + b) * xe + h1 and
\* dx = Math.sqrt(d) / (Math.abs(a) * 2)
MoonVertex(st, h1, a, b, xe, d) ==
    MoonRoots(st, a, xe,
              FAdd(FDiv(FMul(FAdd(FMul(a, xe), b), xe), 2 * Scale), h1), d,
              IF IsNaN(d) \/ d < 0 THEN NaN ELSE FDiv(Isqrt(d), Abs(a)))

\* lines 841 and 843: xe = -b / (2 * a) and d = b * b - 4 * a * h1.  When
\* a is 0 the program divides by zero: xe is an infinity or NaN, a * xe is
\* NaN and so is ye; d is b * b, dx is an infinity or NaN, and neither
\* xe - dx nor xe + dx lies within [-1, 1]
MoonQuad(st, h1, a, b) ==
    IF a = 0 THEN [st EXCEPT !.ye = NaN, !.roots = 0, !.x1 = NaN, !.x2 = NaN]
    ELSE MoonVertex(st, h1, a, b, FDiv(FNeg(b), FTimes(2, a)),
                    IF IsNaN(a) \/ IsNaN(b) \/ IsNaN(h1) THEN NaN
                    ELSE (b * b) \div 4 - 2 * a * h1)

\* lines 837..863: one window, from the samples h1 (its centre) and h2
\* (its end).  a and b are held doubled, h0 + h2 - 2 * h1 and h2 - h0, so
\* that the halves are exact, and d in units of Scale^-2
MoonWindow(st, h1, h2) ==
    MoonQuad(st, h1, FSub(FAdd(st.h0, h2), FTimes(2, h1)), FSub(h2, st.h0))

\* lines 833, 865, 866: the loop is left when both rise and set are truthy;
\* otherwise h0 becomes h2 and i advances by 2, up to 26
MoonNext(w, h2) ==
    IF Truthy(w.rise) /\ Truthy(w.set) THEN [w EXCEPT !.done = TRUE]
    ELSE [w EXCEPT !.h0 = h2, !.i = w.i + 2, !.done = w.i + 2 > 26]

\* one iteration of the loop
MoonStep(st, h1, h2) == MoonNext(MoonWindow(st, h1, h2), h2)

\* lines 828..833: the state before the first window
MoonScanStart(h0) ==
    [h0 |-> h0, rise |-> Missing, set |-> Missing, ye |-> Missing,
     i |-> 1, done |-> FALSE, roots |-> 0, x1 |-> Missing, x2 |-> Missing]

(***************************************************************************)
(* Math.tan and Math.atan2.                                                *)
(***************************************************************************)
\* sin(x) / cos(x); where cos rounds to 0 the tangent is a large number
tan(x) ==
    IF IsNaN(x) THEN NaN
    ELSE IF cos(x) = 0 THEN Sign(sin(x)) * 10^8
    ELSE FDiv(sin(x), cos(x))

\* v * Scale / m for 0 <= v <= m, 0 < m
AtanUnit(v, m) ==
    IF m < 2^20 THEN MulDiv(v, Scale, m)
    ELSE MulDiv(v \div (m \div (2^20) + 1), Scale, m \div (m \div (2^20) + 1))

\* the angle of 0..90 degrees of the point (xn, yn) of the first quadrant
\* at distance r, in thousandths of a degree
AtanQ(yn, xn, r) ==
    IF yn <= xn THEN AsinQ(Min(MulDiv(yn, Scale, r), Scale))
    ELSE 90000 - AsinQ(Min(MulDiv(xn, Scale, r), Scale))

AtanSigned(y, x, q) ==
    FromMilliDeg((IF y < 0 THEN 0 - 1 ELSE 1) * (IF x < 0 THEN 180000 - q ELSE q))

AtanNorm(y, x, yn, xn) == AtanSigned(y, x, AtanQ(yn, xn, Isqrt(yn * yn + xn * xn)))

\* Math.atan2(y, x)
atan(y, x) ==
    IF IsNaN(y) \/ IsNaN(x) THEN NaN
    ELSE IF y = 0 /\ x = 0 THEN 0
    ELSE AtanNorm(y, x, AtanUnit(Abs(y), Max(Abs(x), Abs(y))),
                  AtanUnit(Abs(x), Max(Abs(x), Abs(y))))

(***************************************************************************)
(* Positions, index.ts lines 177..202 and 214..222, 250..267.              *)
(***************************************************************************)
\* c0 + c * d for d a number of days and c = (c1 + c2 / 100) / Scale
Linear(c0, c1, c2, d) ==
    IF IsNaN(d) THEN NaN ELSE c0 + FMul(c1, d) + MulDiv(d \div 100, c2, Scale)

rightAscension(l, b) ==
    atan(FSub(FMul(sin(l), cos(e)), FMul(tan(b), sin(e))), cos(l))

azimuthCalc(H, phi, dec) ==
    FAdd(atan(sin(H), FSub(FMul(cos(H), sin(phi)), FMul(tan(dec), cos(phi)))), Pi)

altitudeCalc(H, phi, dec) ==
    asin(FAdd(FMul(sin(phi), sin(dec)), FMul(FMul(cos(phi), cos(dec)), cos(H))))

\* rad * (280.16 + 360.9856235 * d) - lw; the angle is formed in
\* thousandths of a degree, which 32 bits hold for the days up to 2016
siderealTime(d, lw) ==
    IF IsNaN(d) THEN NaN
    ELSE FSub(FromMilliDeg(280160 + MulDiv(d, 3609856, 10^5)
                               + MulDiv(d \div 100, 235, 10^6)),
              lw)

\* 0.0002967 / Math.tan(h + 0.00312536 / (h + 0.08901179)), h >= 0
AstroRefractionTan(t) ==
    IF IsNaN(t) \/ t = 0 THEN NaN ELSE Sign(t) * MulDiv(29670, 1, Abs(t))

astroRefraction(h) ==
    IF IsNaN(h) THEN NaN
    ELSE AstroRefractionTan(tan(Max(h, 0) + MulDiv(312536, 1, Max(h, 0) + 890)))

SunCoordsL(L) == [dec |-> declination(L, 0), ra |-> rightAscension(L, 0)]

sunCoords(d) == SunCoordsL(eclipticLongitude(solarMeanAnomaly(d)))

\* lines 254..256 and 258..262: l, b and dt from L, M and F; dist is in
\* whole kilometres
MoonCoordsLb(l, b, dt) ==
    [ra |-> rightAscension(l, b), dec |-> declination(l, b), dist |-> dt]

MoonCoordsLMF(L, M, F) ==
    MoonCoordsLb(FAdd(L, rad(FMul(62890, sin(M)))), rad(FMul(51280, sin(F))),
                 IF IsNaN(M) THEN NaN ELSE 385001 - MulDiv(20905, cos(M), Scale))

\* lines 251..253
moonCoords(d) ==
    MoonCoordsLMF(rad(Linear(2183160, 131763, 96, d)),
                  rad(Linear(1349630, 130649, 93, d)),
                  rad(Linear(932720, 132293, 50, d)))

\* dateValue + h * dayMs / 24, h a plain number of hours
hoursLater(dateValue, h) ==
    IF IsNaNMs(dateValue) \/ IsNaN(h) THEN NaNMs
    ELSE Ms(dateValue.day + (dateValue.ms + MulDiv(h, dayMs \div 24, Scale)) \div dayMs,
            (dateValue.ms + MulDiv(h, dayMs \div 24, Scale)) % dayMs,
            dateValue.sub)

(***************************************************************************)
(* getPosition, index.ts lines 397..423.                                   *)
(***************************************************************************)
\* lines 414..422
SunPositionRecord(azimuth, altitude, dec) ==
    [azimuth |-> azimuth, altitude |-> altitude,
     zenith |-> FSub(MulDiv(90, Pi, 180), altitude),
     azimuthDegrees |-> degr(azimuth), altitudeDegrees |-> degr(altitude),
     zenithDegrees |-> FSub(90 * Scale, degr(altitude)),
     declination |-> dec]

\* lines 411..412
SunPositionOf(H, phi, dec) ==
    SunPositionRecord(azimuthCalc(H, phi, dec), altitudeCalc(H, phi, dec), dec)

\* line 410
SunPositionH(phi, c, th) == SunPositionOf(FSub(th, c.ra), phi, c.dec)

\* lines 408..409
SunPositionD(lw, phi, d) == SunPositionH(phi, sunCoords(d), siderealTime(d, lw))

\* lines 405..408
SunPositionAt(timestamp, lat, lng) ==
    SunPositionD(rad(FNeg(lng)), rad(lat), JToNum(toDays(timestamp)))

\* mutant of getPosition: the longitude is not checked
getPositionAnyLng(dateValue, lat, lng) ==
    IF isNaN(lat) THEN Threw("latitude missing")
    ELSE Returned(SunPositionAt(dateValue, lat, IF isNaN(lng) THEN NaN ELSE lng))

getPosition(dateValue, lat, lng) ==
    IF isNaN(lat) THEN Threw("latitude missing")
    ELSE IF isNaN(lng) THEN Threw("longitude missing")
    ELSE Returned(SunPositionAt(dateValue, lat, lng))

(***************************************************************************)
(* getMoonPosition, index.ts lines 693..722.                               *)
(***************************************************************************)
\* lines 713..721
MoonPositionRecord(azimuth, altitude, dist, pa) ==
    [azimuth |-> azimuth, altitude |-> altitude,
     azimuthDegrees |-> degr(azimuth), altitudeDegrees |-> degr(altitude),
     distance |-> dist, parallacticAngle |-> pa,
     parallacticAngleDegrees |-> degr(pa)]

\* lines 708..711: the refraction added to the altitude, pa and azimuth
MoonPositionOf(H, phi, c, altitude) ==
    MoonPositionRecord(
        azimuthCalc(H, phi, c.dec),
        FAdd(altitude, astroRefraction(altitude)),
        c.dist,
        atan(sin(H), FSub(FMul(tan(phi), cos(c.dec)), FMul(sin(c.dec), cos(H)))))

\* line 707
MoonPositionH(H, phi, c) == MoonPositionOf(H, phi, c, altitudeCalc(H, phi, c.dec))

\* line 706
MoonPositionD(lw, phi, c, th) == MoonPositionH(FSub(th, c.ra), phi, c)

\* lines 701..705
MoonPositionAt(timestamp, lat, lng) ==
    MoonPositionD(rad(FNeg(lng)), rad(lat), moonCoords(JToNum(toDays(timestamp))),
                  siderealTime(JToNum(toDays(timestamp)), rad(FNeg(lng))))

getMoonPosition(dateValue, lat, lng) ==
    IF isNaN(lat) THEN Threw("latitude missing")
    ELSE IF isNaN(lng) THEN Threw("longitude missing")
    ELSE Returned(MoonPositionAt(dateValue, lat, lng))

(***************************************************************************)
(* getMoonTimes, index.ts lines 811..887.                                  *)
(***************************************************************************)
\* lines 819..826: the midnight that begins the day of dateValue
MidnightOf(dateValue, inUTC, tz) ==
    IF inUTC THEN SetUTCHours(NewDate(dateValue), 0)
    ELSE SetHours(NewDate(dateValue), 0, tz)

\* getMoonPosition(hoursLater(timestamp, h), lat, lng).altitude - hc, for a
\* whole number of hours h and hc = 0.133 * rad
MoonAltitude(timestamp, h, lat, lng) ==
    FSub(getMoonPosition(hoursLater(timestamp, h * Scale), lat, lng).value.altitude,
         rad(1330))

\* lines 833..867: the loop, over the altitudes of the moon
RECURSIVE MoonScan(_, _, _, _)
MoonScan(st, timestamp, lat, lng) ==
    IF st.done THEN st
    ELSE MoonScan(MoonStep(st, MoonAltitude(timestamp, st.i, lat, lng),
                           MoonAltitude(timestamp, st.i + 1, lat, lng)),
                  timestamp, lat, lng)

\* lines 874..884: the flags, and highest when rise and set are both truthy
MoonTimesFlags(timestamp, st) ==
    IF ~Truthy(st.rise) /\ ~Truthy(st.set)
    THEN [alwaysUp |-> ~isNaN(st.ye) /\ st.ye > 0,
          alwaysDown |-> ~isNaN(st.ye) /\ st.ye <= 0]
    ELSE IF Truthy(st.rise) /\ Truthy(st.set)
    THEN [alwaysUp |-> FALSE, alwaysDown |-> FALSE,
          highest |-> NewDate(hoursLater(timestamp,
                                         Min(st.rise, st.set)
                                             + Abs(st.set - st.rise) \div 2))]
    ELSE [alwaysUp |-> FALSE, alwaysDown |-> FALSE]

\* lines 869..886: the result; a rise or set that is not truthy is reported
\* as NaN
MoonTimesResult(timestamp, st) ==
    [rise |-> IF Truthy(st.rise) THEN NewDate(hoursLater(timestamp, st.rise))
              ELSE NaNMs,
     set |-> IF Truthy(st.set) THEN NewDate(hoursLater(timestamp, st.set))
             ELSE NaNMs]
        @@ MoonTimesFlags(timestamp, st)

\* lines 826..886
MoonTimesAt(timestamp, lat, lng) ==
    MoonTimesResult(timestamp,
                    MoonScan(MoonScanStart(MoonAltitude(timestamp, 0, lat, lng)),
                             timestamp, lat, lng))

getMoonTimes(dateValue, lat, lng, inUTC, tz) ==
    IF isNaN(lat) THEN Threw("latitude missing")
    ELSE IF isNaN(lng) THEN Threw("longitude missing")
    ELSE Returned(MoonTimesAt(MidnightOf(dateValue, inUTC, tz), lat, lng))

(***************************************************************************)
(* getSunTimeByAzimuth, index.ts lines 638..673.  addval is dayMs halved k *)
(* times, held as [ms, sub]: whole milliseconds and units of 2^-12 ms.     *)
(***************************************************************************)
\* addval /= 2
HalfStep(addval) ==
    [ms |-> addval.ms \div 2,
     sub |-> (addval.sub + (addval.ms % 2) * SubUnits) \div 2]

\* dateVal += addval and dateVal -= addval
MsPlus(v, addval) ==
    LET s == v.sub + addval.sub
        m == v.ms + addval.ms + s \div SubUnits
    IN  Ms(v.day + m \div dayMs, m % dayMs, s % SubUnits)

MsMinus(v, addval) ==
    LET s == v.sub - addval.sub
        m == v.ms - addval.ms + s \div SubUnits
    IN  Ms(v.day + m \div dayMs, m % dayMs, s % SubUnits)

\* lines 654..656: dateVal is the midnight that ends the local day, addval
\* one day
AzimuthSearchStart(midnight) ==
    [dateVal |-> MsPlus(midnight, [ms |-> dayMs, sub |-> 0]),
     addval |-> [ms |-> dayMs, sub |-> 0]]

\* lines 660..662: the azimuth of the sun at dateVal
AzimuthD(lw, phi, d) ==
    SunPositionD(lw, phi, d).azimuth

AzimuthAt(dateVal, lw, phi) == AzimuthD(lw, phi, JToNum(toDays(dateVal)))

\* lines 664..669: addval is halved and dateVal moved by it
AzimuthMove(st, addval, currentAzimuth, targetAzimuth) ==
    [addval |-> addval,
     dateVal |-> IF ~IsNaN(currentAzimuth) /\ ~IsNaN(targetAzimuth)
                        /\ currentAzimuth < targetAzimuth
                 THEN MsPlus(st.dateVal, addval)
                 ELSE MsMinus(st.dateVal, addval)]

\* mutant of AzimuthGoesOn: the loop goes on while addval > 100
AzimuthGoesOnTo100(addval) ==
    addval.ms > 100 \/ (addval.ms = 100 /\ addval.sub > 0)

\* line 658: addval > 200
AzimuthGoesOn(addval) ==
    addval.ms > 200 \/ (addval.ms = 200 /\ addval.sub > 0)

\* lines 658..670: the loop; st is [dateVal, addval]
RECURSIVE AzimuthLoop(_, _, _, _)
AzimuthLoop(st, lw, phi, targetAzimuth) ==
    IF ~AzimuthGoesOn(st.addval)
    THEN st.dateVal
    ELSE AzimuthLoop(AzimuthMove(st, HalfStep(st.addval),
                                 AzimuthAt(st.dateVal, lw, phi), targetAzimuth),
                     lw, phi, targetAzimuth)

\* lines 654..672: the search from the midnight that ends the local day,
\* and new Date(Math.floor(dateVal))
AzimuthSearch(midnight, lw, phi, targetAzimuth) ==
    NewDate(AzimuthLoop(AzimuthSearchStart(midnight), lw, phi, targetAzimuth))

getSunTimeByAzimuth(dateValue, lat, lng, azimuth, degree0, tz) ==
    IF isNaN(azimuth) THEN Threw("azimuth missing")
    ELSE IF isNaN(lat) THEN Threw("latitude missing")
    ELSE IF isNaN(lng) THEN Threw("longitude missing")
    ELSE Returned(AzimuthSearch(SetHours(NewDate(dateValue), 0, tz),
                                rad(FNeg(lng)), rad(lat),
                                IF degree0 THEN rad(azimuth)
                                ELSE azimuth))

(***************************************************************************)
(* getSolarTime, index.ts lines 675..691.  The calendar of Date: a day     *)
(* number counts the days since 1970-01-01.                                *)
(***************************************************************************)
\* the day number of January 1 of year y
DayOfJanuary1(y) ==
    LET yoe == (y - 1) % 400
    IN  ((y - 1) \div 400) * 146097 + yoe * 365 + yoe \div 4 - yoe \div 100 + 306
            - 719468

\* date.getFullYear() for a local day number
YearOfDay(day) ==
    CHOOSE y \in (1970 + day \div 366 - 1)..(1970 + day \div 365 + 1) :
        DayOfJanuary1(y) <= day /\ day < DayOfJanuary1(y + 1)

\* lines 689..690: new Date(0, 0) is the local midnight of 1900-01-01;
\* setMinutes takes the integer part of its argument
SolarDate(minutes, tz) ==
    IF IsNaN(minutes) THEN NaNMs
    ELSE MsNorm(DayOfJanuary1(1900), Sign(minutes) * (Abs(minutes) \div Scale) * 60000 - tz)

\* lines 685..687: localSolarTime * 60, with timeCorrection in minutes
SolarMinutes(local, equationOfTime, lng, utcOffset, tz) ==
    SolarDate(FAdd(FAdd(FTimes(local.ms \div 3600000, 60 * Scale),
                        FAdd(equationOfTime,
                             FTimes(4, FSub(lng, FTimes(15, utcOffset))))),
                   FTimes((local.ms \div 60000) % 60, Scale)),
              tz)

\* line 684
SolarEquation(local, b, lng, utcOffset, tz) ==
    SolarMinutes(local,
                 FSub(FSub(FMul(98700, sin(2 * b)), FMul(75300, cos(b))),
                      FMul(15000, sin(b))),
                 lng, utcOffset, tz)

\* lines 678..683: start is the last day of the year before; the zone
\* offsets of start and date are the same
SolarDayOfYear(local, dayOfYear, lng, utcOffset, tz) ==
    SolarEquation(local, rad(MulDiv(360 * Scale, dayOfYear - 81, 365)),
                  lng, utcOffset, tz)

SolarLocal(local, lng, utcOffset, tz) ==
    SolarDayOfYear(local, local.day - (DayOfJanuary1(YearOfDay(local.day)) - 1),
                   lng, utcOffset, tz)

getSolarTime(dateValue, lng, utcOffset, tz) ==
    IF IsNaNMs(dateValue) THEN NaNMs
    ELSE SolarLocal(MsNorm(dateValue.day, dateValue.ms + tz),
                    IF lng = Missing THEN NaN ELSE lng,
                    IF utcOffset = Missing THEN NaN ELSE utcOffset, tz)

(***************************************************************************)
(* getMoonIllumination, index.ts lines 724..798.  Instants and durations   *)
(* are [day, ms, sub] values (day below 0 for a negative duration); sums   *)
(* and differences of them are exact in doubles, as they are here.         *)
(***************************************************************************)
MsAdd(a, b) ==
    IF IsNaNMs(a) \/ IsNaNMs(b) THEN NaNMs
    ELSE Ms(a.day + b.day + (a.ms + b.ms + (a.sub + b.sub) \div SubUnits) \div dayMs,
            (a.ms + b.ms + (a.sub + b.sub) \div SubUnits) % dayMs,
            (a.sub + b.sub) % SubUnits)

MsSub(a, b) ==
    IF IsNaNMs(a) \/ IsNaNMs(b) THEN NaNMs
    ELSE Ms(a.day - b.day + (a.ms - b.ms + (a.sub - b.sub) \div SubUnits) \div dayMs,
            (a.ms - b.ms + (a.sub - b.sub) \div SubUnits) % dayMs,
            (a.sub - b.sub) % SubUnits)

\* a < b; false when one is NaN
MsLt(a, b) ==
    /\ ~IsNaNMs(a) /\ ~IsNaNMs(b)
    /\ \/ a.day < b.day
       \/ a.day = b.day /\ a.ms < b.ms
       \/ a.day = b.day /\ a.ms = b.ms /\ a.sub < b.sub

\* x / 2, exact for the values it is used on
MsHalf(x) ==
    Ms(x.day \div 2,
       (x.ms + (x.day % 2) * dayMs) \div 2,
       (x.sub + ((x.ms + (x.day % 2) * dayMs) % 2) * SubUnits) \div 2)

\* lines 163, 164: 2551442778 ms and 947178840000 ms
lunarDaysMs == Ms(29, 45842778, 0)
firstNewMoon2000 == Ms(10962, 62040000, 0)

\* k * lunarDaysMs for a whole number k
LunarTimes(k) ==
    LET low == k * 778
        sec == k * 45842 + low \div 1000
    IN  Ms(29 * k + sec \div 86400, (sec % 86400) * 1000 + (low % 1000), 0)

\* the whole number of lunarDaysMs in x, rounded toward minus infinity
LunarFloor(x) ==
    CHOOSE k \in ((x.day * 86400) \div 2551443 - 1)..((x.day * 86400) \div 2551443 + 1) :
        /\ ~MsLt(x, LunarTimes(k))
        /\ MsLt(x, LunarTimes(k + 1))

\* x % lunarDaysMs: the remainder has the sign of x
LunarRem(x) ==
    IF IsNaNMs(x) THEN NaNMs
    ELSE IF x.day < 0 /\ MsSub(x, LunarTimes(LunarFloor(x))) # Ms(0, 0, 0)
    THEN MsSub(x, LunarTimes(LunarFloor(x) + 1))
    ELSE MsSub(x, LunarTimes(LunarFloor(x)))

\* lines 738..740
CycleModMs(rem) == IF ~IsNaNMs(rem) /\ rem.day < 0 THEN MsAdd(rem, lunarDaysMs) ELSE rem

\* lines 743..757: a prediction is moved one month on when it lies before
\* timestamp
NextMoonAfter(v, timestamp) == IF MsLt(v, timestamp) THEN MsAdd(v, lunarDaysMs) ELSE v

\* Math.min of two instants: NaN when one is NaN
MsMin(a, b) ==
    IF IsNaNMs(a) \/ IsNaNMs(b) THEN NaNMs ELSE IF MsLt(b, a) THEN b ELSE a

\* lines 774..796
NextMoonRecord(next, nextNewMoon, nextFirstQuarter, nextFullMoon, nextThirdQuarter) ==
    [value |-> next, date |-> NewDate(next),
     type |-> IF ~IsNaNMs(next) /\ next = nextNewMoon THEN "newMoon"
              ELSE IF ~IsNaNMs(next) /\ next = nextFirstQuarter THEN "firstQuarter"
              ELSE IF ~IsNaNMs(next) /\ next = nextFullMoon THEN "fullMoon"
              ELSE "thirdQuarter",
     newMoon |-> [value |-> nextNewMoon, date |-> NewDate(nextNewMoon)],
     fullMoon |-> [value |-> nextFullMoon, date |-> NewDate(nextFullMoon)],
     firstQuarter |-> [value |-> nextFirstQuarter, date |-> NewDate(nextFirstQuarter)],
     thirdQuarter |-> [value |-> nextThirdQuarter, date |-> NewDate(nextThirdQuarter)]]

\* mutant of NextMoonMin: the third quarter is left out of the minimum
NextMoonMinOfThree(nextNewMoon, nextFirstQuarter, nextFullMoon, nextThirdQuarter) ==
    NextMoonRecord(MsMin(MsMin(nextNewMoon, nextFirstQuarter), nextFullMoon),
                   nextNewMoon, nextFirstQuarter, nextFullMoon, nextThirdQuarter)

\* line 759
NextMoonMin(nextNewMoon, nextFirstQuarter, nextFullMoon, nextThirdQuarter) ==
    NextMoonRecord(MsMin(MsMin(nextNewMoon, nextFirstQuarter),
                         MsMin(nextFullMoon, nextThirdQuarter)),
                   nextNewMoon, nextFirstQuarter, nextFullMoon, nextThirdQuarter)

\* lines 742..757, for quarter = lunarDaysMs / 4
NextMoonOf(timestamp, cycleModMs, quarter) ==
    NextMoonMin(MsAdd(MsSub(lunarDaysMs, cycleModMs), timestamp),
                NextMoonAfter(MsAdd(MsSub(quarter, cycleModMs), timestamp), timestamp),
                NextMoonAfter(MsAdd(MsSub(MsHalf(lunarDaysMs), cycleModMs), timestamp),
                              timestamp),
                NextMoonAfter(MsAdd(MsSub(MsSub(lunarDaysMs, quarter), cycleModMs),
                                    timestamp),
                              timestamp))

\* lines 736..757
NextMoons(timestamp) ==
    NextMoonOf(timestamp, CycleModMs(LunarRem(MsSub(timestamp, firstNewMoon2000))),
               MsHalf(MsHalf(lunarDaysMs)))

\* a plain number of 0..1 as a phase value
PhaseOfNum(x) ==
    IF IsNaN(x) THEN PhaseNaN ELSE <<x \div Scale, (x % Scale) * 10, 0, 0>>

\* lines 769..773 and 774: the result; phase is the index of the element
\* of moonCycles (0: undefined)
MoonIllumRecord(inc, angle, phaseValue, next) ==
    [fraction |-> IF IsNaN(inc) THEN NaN ELSE (Scale + cos(inc)) \div 2,
     phase |-> MoonPhaseIndex(PhaseOfNum(phaseValue)),
     phaseValue |-> phaseValue,
     angle |-> angle,
     next |-> next]

\* line 734: 0.5 + 0.5 * inc * (angle < 0 ? -1 : 1) / Math.PI
MoonIllumPhase(inc, angle, next) ==
    MoonIllumRecord(inc, angle,
                    IF IsNaN(inc) THEN NaN
                    ELSE Scale \div 2
                         + MulDiv((IF ~IsNaN(angle) /\ angle < 0 THEN 0 - 1 ELSE 1) * inc,
                                  Scale \div 2, Pi),
                    next)

\* lines 731..733: inc and angle; distances are whole kilometres
MoonIllumInc(s, m, phi, next) ==
    MoonIllumPhase(
        IF IsNaN(phi) THEN NaN
        ELSE atan(MulDiv(149598000, sin(phi), Scale),
                  m.dist - MulDiv(149598000, cos(phi), Scale)),
        atan(FMul(cos(s.dec), sin(FSub(s.ra, m.ra))),
             FSub(FMul(sin(s.dec), cos(m.dec)),
                  FMul(FMul(cos(s.dec), sin(m.dec)), cos(FSub(s.ra, m.ra))))),
        next)

\* line 730
MoonIllumPhi(s, m, next) ==
    MoonIllumInc(s, m,
                 acos(FAdd(FMul(sin(s.dec), sin(m.dec)),
                           FMul(FMul(cos(s.dec), cos(m.dec)), cos(FSub(s.ra, m.ra))))),
                 next)

\* lines 726..728
MoonIllumAt(d, next) == MoonIllumPhi(sunCoords(d), moonCoords(d), next)

\* new Date(next).toISOString() throws a RangeError for an invalid date
getMoonIllumination(dateValue) ==
    IF IsNaNMs(dateValue) THEN Threw("RangeError")
    ELSE Returned(MoonIllumAt(JToNum(toDays(dateValue)), NextMoons(dateValue)))

(***************************************************************************)
(* getMoonData, index.ts lines 800..809.                                   *)
(***************************************************************************)
\* lines 804..808
MoonDataRecord(pos, illum) ==
    [illumination |-> illum,
     zenithAngle |-> FSub(illum.angle, pos.parallacticAngle)] @@ pos

\* lines 801..802: an error of either call is the error of getMoonData
MoonDataOf(pos, illum) ==
    IF pos.threw THEN pos
    ELSE IF illum.threw THEN illum
    ELSE Returned(MoonDataRecord(pos.value, illum.value))

getMoonData(dateValue, lat, lng) ==
    MoonDataOf(getMoonPosition(dateValue, lat, lng), getMoonIllumination(dateValue))

(***************************************************************************)
(* moonTransit, index.ts lines 889..926, and calcMoonTransit, lines        *)
(* 269..274.  rise and set are instants, or NaN as getMoonTimes reports a  *)
(* missing one; null is Null.                                              *)
(***************************************************************************)
Null == [null |-> TRUE]

\* the day number of the first day of the month of a day number
DayOfMonth1(day) ==
    LET y == YearOfDay(day)
        leap == IF y % 4 = 0 /\ (y % 100 # 0 \/ y % 400 = 0) THEN 1 ELSE 0
        first == [m \in 1..12 |->
                     DayOfJanuary1(y)
                         + <<0, 31, 59 + leap, 90 + leap, 120 + leap, 151 + leap,
                             181 + leap, 212 + leap, 243 + leap, 273 + leap,
                             304 + leap, 334 + leap>>[m]]
    IN  first[CHOOSE m \in 1..12 :
                  first[m] <= day /\ (m = 12 \/ day < first[m + 1])]

\* date.getDate() in the zone tz; Missing for an invalid date
GetDate(date, tz) ==
    IF IsNaNMs(date) THEN Missing
    ELSE MsNorm(date.day, date.ms + tz).day
             - DayOfMonth1(MsNorm(date.day, date.ms + tz).day) + 1

\* new Date(date).setDate(n) in the zone tz
SetDate(date, n, tz) ==
    IF IsNaNMs(date) \/ n = Missing THEN NaNMs
    ELSE MsNorm(DayOfMonth1(MsNorm(date.day, date.ms + tz).day) + n - 1,
                MsNorm(date.day, date.ms + tz).ms - tz)

\* lines 269..274
calcMoonTransit(rize, set) ==
    IF MsLt(set, rize) THEN NewDate(MsAdd(set, MsHalf(MsSub(rize, set))))
    ELSE NewDate(MsAdd(rize, MsHalf(MsSub(set, rize))))

\* lines 918..923
TransitBefore(st, setValue, day, tempTransitBefore, tz) ==
    IF GetDate(tempTransitBefore, tz) = day /\ day # Missing
    THEN [st EXCEPT !.main = tempTransitBefore]
    ELSE st

\* lines 906..916
TransitAfter(st, day, tempTransitAfter, tz) ==
    IF GetDate(tempTransitAfter, tz) = day /\ day # Missing
    THEN IF st.main # Null THEN [st EXCEPT !.invert = tempTransitAfter]
         ELSE [st EXCEPT !.main = tempTransitAfter]
    ELSE st

\* lines 898..904
TransitBoth(riseValue, setValue) ==
    IF ~IsNaNMs(riseValue) /\ ~IsNaNMs(setValue)
    THEN IF MsLt(riseValue, setValue)
         THEN [main |-> calcMoonTransit(riseValue, setValue), invert |-> Null]
         ELSE [main |-> Null, invert |-> calcMoonTransit(riseValue, setValue)]
    ELSE [main |-> Null, invert |-> Null]

\* lines 906..916, with the outcome of getMoonTimes for the day after
TransitRise(st, riseValue, day, after, tz) ==
    IF after.threw THEN after
    ELSE Returned(TransitAfter(st, day,
                               calcMoonTransit(riseValue, after.value.set), tz))

\* lines 918..923, with the outcome of getMoonTimes for the day before
TransitSet(st, setValue, day, before, tz) ==
    IF before.threw THEN before
    ELSE Returned(TransitBefore(st, setValue, day,
                                calcMoonTransit(setValue, before.value.rise), tz))

\* lines 906..917: if (rise) { ... }
TransitIfRise(st, riseValue, day, lat, lng, tz) ==
    IF IsNaNMs(riseValue) THEN Returned(st)
    ELSE TransitRise(st, riseValue, day,
                     getMoonTimes(SetDate(riseValue,
                                          IF day = Missing THEN Missing ELSE day + 1,
                                          tz),
                                  lat, lng, FALSE, tz),
                     tz)

\* lines 918..923: if (set) { ... }, unless the first getMoonTimes threw
TransitIfSet(outcome, setValue, day, lat, lng, tz) ==
    IF outcome.threw \/ IsNaNMs(setValue) THEN outcome
    ELSE TransitSet(outcome.value, setValue, day,
                    getMoonTimes(SetDate(setValue, day - 1, tz), lat, lng, FALSE, tz),
                    tz)

\* lines 897..925; day is setDate.getDate()
TransitDay(riseValue, setValue, day, lat, lng, tz) ==
    TransitIfSet(TransitIfRise(TransitBoth(riseValue, setValue), riseValue, day,
                               lat, lng, tz),
                 setValue, day, lat, lng, tz)

moonTransit(rise, set, lat, lng, tz) ==
    TransitDay(NewDate(rise), NewDate(set), GetDate(NewDate(set), tz), lat, lng, tz)

(***************************************************************************)
(* The inputs explored.                                                    *)
(***************************************************************************)
\* addTime: <<angleAltitude, degree>>: 5 degrees, -0.2618 rad, no number
AngleInputs == {<<50000, TRUE>>, <<0 - 2618, FALSE>>, <<Missing, TRUE>>}
\* new names, an alias name ("dawn"), a name of the table, and strings the
\* pattern refuses
NameInputs == {"x", "dawn", "civilDusk", "9x", "a-b", ""}
AlternateNameInputs == {"dawn", "nadir", "civilDusk", "9x", ""}
OriginalNameInputs == {"civilDusk", "x", "nope", ""}

\* 2013-03-05T00:00Z read in UTC, and 2013-03-05T23:00Z read in a zone two
\* hours east of UTC (there the day is March 6): <<dateValue, inUTC, tz>>
\* (day 15769 of the epoch is 2013-03-05)
DateInputs ==
    { <<Ms(15769, 0, 0), TRUE, 0>>,
      <<Ms(15769, 23 * (dayMs \div 24), 0), FALSE, 2 * (dayMs \div 24)>> }
LatInputs == {505000, 890000, NaN}
LngInputs == {305000, Missing}
HeightInputs == {Missing, 2000 * Scale}
\* getSunTime: <<elevationAngle, degree>>
ElevationInputs == {<<0, FALSE>>, <<50000, TRUE>>, <<NaN, FALSE>>}
\* getSunTimeByAzimuth: <<azimuth, degree>>: south, east, no number
AzimuthInputs == {<<Pi, FALSE>>, <<900000, TRUE>>, <<Missing, FALSE>>}

\* instants of 2013-03-05: the first milliseconds of the day, the
\* milliseconds after 03:25:45.678, and multiples of 84375 ms (which the
\* division by dayMs keeps exact)
InstantInputs ==
    {Ms(15769, m, 0) : m \in 0..(MaxInstants - 1)}
        \cup {Ms(15769, 12345678 + m, 0) : m \in 0..(MaxInstants - 1)}
        \cup {Ms(15769, DayOdd * m, 0) : m \in 1..MaxInstants}

\* phase values: the bounds of moonCycles, their neighbours in the last
\* decimals, a grid of sixteenths, and NaN
PhaseBounds ==
    {moonCycles[i].from : i \in 1..Len(moonCycles)}
        \cup {moonCycles[i].to : i \in 1..Len(moonCycles)}
PhaseInputs ==
    PhaseBounds
        \cup {<<p[1], p[2], p[3], p[4] + k>> : p \in PhaseBounds \ {<<1, 0, 0, 0>>},
                                                k \in 1..MaxPhaseStep}
        \cup {<<p[1], p[2], p[3], p[4] - k>> : p \in PhaseBounds \ {<<0, 0, 0, 0>>, <<1, 0, 0, 0>>},
                                                k \in 1..MaxPhaseStep}
        \cup {<<0, 6250 * k, 0, 0>> : k \in 1..15}
        \cup {PhaseNaN}

\* altitude samples of the window scan (altitude less hc), in radians:
\* below, at and above the horizon
AltitudeInputs == {0 - Scale, 0, Scale}

\* getMoonIllumination: the instants k quarters of a synodic month from
\* firstNewMoon2000, a millisecond before, at and a millisecond after each,
\* and the two instants of DateInputs
RECURSIVE QuarterSteps(_)
QuarterSteps(k) ==
    IF k = 0 THEN Ms(0, 0, 0)
    ELSE IF k > 0 THEN MsAdd(QuarterSteps(k - 1), MsHalf(MsHalf(lunarDaysMs)))
    ELSE MsSub(QuarterSteps(k + 1), MsHalf(MsHalf(lunarDaysMs)))
IllumInputs ==
    {MsAdd(MsAdd(firstNewMoon2000, QuarterSteps(k)), Ms(0, 0, 0)) :
         k \in (0 - MaxQuarter)..MaxQuarter}
        \cup {MsAdd(MsAdd(firstNewMoon2000, QuarterSteps(k)), Ms(0, 1, 0)) :
                  k \in (0 - MaxQuarter)..MaxQuarter}
        \cup {MsSub(MsAdd(firstNewMoon2000, QuarterSteps(k)), Ms(0, 1, 0)) :
                  k \in (0 - MaxQuarter)..MaxQuarter}
        \cup {d[1] : d \in DateInputs}
\* getSolarTime: <<lng, utcOffset>>
SolarInputs == {<<305000, 20000>>, <<Missing, 20000>>, <<0 - 1200000, Missing>>}
\* moonTransit: a rise and a set as getMoonTimes reports them for
\* 2013-03-05 at 50.5, 30.5, and NaN for a missing one
RiseInputs == {Ms(15770, 3188520, 0), NaNMs}
\* getSunTimeByAzimuth: the azimuth of the sun as a function of the
\* instant: below Pi before the instant at and above it from then on
\* ("rising"), the reverse ("falling"), or NaN throughout
CurveInputs ==
    {[kind |-> k, at |-> Ms(15769 + d, h * (dayMs \div 24) + 1234, 0)] :
         k \in {"rising", "falling"}, d \in 0..2, h \in {0, 7, 11, 18}}
        \cup {[kind |-> "nan", at |-> NaNMs]}
CurveAt(curve, dateVal) ==
    IF curve.kind = "nan" THEN NaN
    ELSE IF (curve.kind = "rising") = MsLt(dateVal, curve.at) THEN 0
    ELSE 2 * Pi
SetInputs == {Ms(15769, 31483080, 0), NaNMs}

(***************************************************************************)
(* The state machine.  Calls are made one at a time: ret holds the outcome *)
(* of the call just made until the caller takes it (Continue).             *)
(***************************************************************************)
Idle == [op |-> "idle"]

Init ==
    /\ times = InitTimes
    /\ timesDeprecated = InitTimesDeprecated
    /\ ret = Idle

AddTime(angleAltitude, riseName, setName, degree) ==
    LET r == addTime(times, timesDeprecated, angleAltitude, riseName, setName, degree)
    IN  /\ ret = Idle
        /\ r.value => Len(times) - NumBuiltin < MaxCustom
        /\ times' = r.times
        /\ timesDeprecated' = r.timesDeprecated
        /\ ret' = [op |-> "addTime", angleAltitude |-> angleAltitude,
                   riseName |-> riseName, setName |-> setName,
                   degree |-> degree, value |-> r.value]

AddDeprecatedTimeName(alternateName, originalName) ==
    LET r == addDeprecatedTimeName(times, timesDeprecated, alternateName, originalName)
    IN  /\ ret = Idle
        /\ r.value => Len(timesDeprecated) < NumBuiltinAlias + MaxAlias
        /\ times' = r.times
        /\ timesDeprecated' = r.timesDeprecated
        /\ ret' = [op |-> "addDeprecatedTimeName", alternateName |-> alternateName,
                   originalName |-> originalName, value |-> r.value]

GetSunTimes(dateValue, lat, lng, height, addDeprecated, inUTC, tz) ==
    /\ ret = Idle
    /\ ret' = [op |-> "getSunTimes", dateValue |-> dateValue, lat |-> lat,
               lng |-> lng, height |-> height, addDeprecated |-> addDeprecated,
               inUTC |-> inUTC, tz |-> tz,
               out |-> getSunTimes(times, timesDeprecated, dateValue, lat, lng,
                                   height, addDeprecated, inUTC, tz)]
    /\ UNCHANGED <<times, timesDeprecated>>

GetSunTime(dateValue, lat, lng, elevationAngle, height, degree, inUTC, tz) ==
    /\ ret = Idle
    /\ ret' = [op |-> "getSunTime", dateValue |-> dateValue, lat |-> lat,
               lng |-> lng, elevationAngle |-> elevationAngle, height |-> height,
               degree |-> degree, inUTC |-> inUTC, tz |-> tz,
               out |-> getSunTime(dateValue, lat, lng, elevationAngle, height,
                                  degree, inUTC, tz)]
    /\ UNCHANGED <<times, timesDeprecated>>

GetPosition(dateValue, lat, lng) ==
    /\ ret = Idle
    /\ ret' = [op |-> "getPosition", dateValue |-> dateValue, lat |-> lat,
               lng |-> lng, out |-> getPosition(dateValue, lat, lng)]
    /\ UNCHANGED <<times, timesDeprecated>>

\* the zone of the process is tz
GetSunTimeByAzimuth(dateValue, lat, lng, azimuth, degree, tz) ==
    /\ ret = Idle
    /\ ret' = [op |-> "getSunTimeByAzimuth", dateValue |-> dateValue,
               lat |-> lat, lng |-> lng, azimuth |-> azimuth,
               degree |-> degree, tz |-> tz,
               out |-> getSunTimeByAzimuth(dateValue, lat, lng, azimuth, degree, tz)]
    /\ UNCHANGED <<times, timesDeprecated>>

GetMoonPosition(dateValue, lat, lng) ==
    /\ ret = Idle
    /\ ret' = [op |-> "getMoonPosition", dateValue |-> dateValue, lat |-> lat,
               lng |-> lng, out |-> getMoonPosition(dateValue, lat, lng)]
    /\ UNCHANGED <<times, timesDeprecated>>

GetMoonTimes(dateValue, lat, lng, inUTC, tz) ==
    /\ ret = Idle
    /\ ret' = [op |-> "getMoonTimes", dateValue |-> dateValue, lat |-> lat,
               lng |-> lng, inUTC |-> inUTC, tz |-> tz,
               out |-> getMoonTimes(dateValue, lat, lng, inUTC, tz)]
    /\ UNCHANGED <<times, timesDeprecated>>

\* the zone of the process is tz
GetSolarTime(dateValue, lng, utcOffset, tz) ==
    /\ ret = Idle
    /\ ret' = [op |-> "getSolarTime", dateValue |-> dateValue, lng |-> lng,
               utcOffset |-> utcOffset, tz |-> tz,
               out |-> Returned(getSolarTime(dateValue, lng, utcOffset, tz))]
    /\ UNCHANGED <<times, timesDeprecated>>

GetMoonIllumination(dateValue) ==
    /\ ret = Idle
    /\ ret' = [op |-> "getMoonIllumination", dateValue |-> dateValue,
               out |-> getMoonIllumination(dateValue)]
    /\ UNCHANGED <<times, timesDeprecated>>

GetMoonData(dateValue, lat, lng) ==
    /\ ret = Idle
    /\ ret' = [op |-> "getMoonData", dateValue |-> dateValue, lat |-> lat,
               lng |-> lng, out |-> getMoonData(dateValue, lat, lng)]
    /\ UNCHANGED <<times, timesDeprecated>>

\* the zone of the process is tz
MoonTransit(rise, set, lat, lng, tz) ==
    /\ ret = Idle
    /\ ret' = [op |-> "moonTransit", rise |-> rise, set |-> set, lat |-> lat,
               lng |-> lng, tz |-> tz,
               out |-> moonTransit(rise, set, lat, lng, tz)]
    /\ UNCHANGED <<times, timesDeprecated>>

\* fromJulianDay(toDays(ts) + J2000), index.ts lines 169..175
JulianRoundTrip(ts) ==
    /\ ret = Idle
    /\ ret' = [op |-> "julianRoundTrip", ts |-> ts,
               julian |-> JAdd(toDays(ts), J2000J),
               back |-> fromJulianDay(JAdd(toDays(ts), J2000J))]
    /\ UNCHANGED <<times, timesDeprecated>>

\* fromJulian(toJulian(date)) of the legacy module
LegacyRoundTrip(date) ==
    /\ ret = Idle
    /\ ret' = [op |-> "legacyRoundTrip", date |-> date,
               julian |-> toJulian(date),
               back |-> fromJulian(toJulian(date))]
    /\ UNCHANGED <<times, timesDeprecated>>

\* the phase getMoonIllumination picks for a phase value
MoonPhase(phaseValue) ==
    /\ ret = Idle
    /\ ret' = [op |-> "moonPhase", phaseValue |-> phaseValue,
               phase |-> MoonPhaseIndex(phaseValue)]
    /\ UNCHANGED <<times, timesDeprecated>>

\* getMoonTimes, lines 829..833, for a first altitude sample h0: the loop
\* is entered; windows counts the iterations made
ScanStart(h0) ==
    /\ ret = Idle
    /\ ret' = [op |-> "moonScan", scan |-> MoonScanStart(h0), windows |-> 0,
               out |-> Null]
    /\ UNCHANGED <<times, timesDeprecated>>

\* the result of lines 869..886 once the loop has been left, for the
\* start instant 2013-03-05T00:00Z
ScanResult(st) ==
    IF st.done THEN MoonTimesResult(Ms(15769, 0, 0), st) ELSE Null

\* one iteration of the loop of getMoonTimes, lines 833..867, for the
\* altitude samples h1 and h2; the iteration that leaves the loop goes on
\* to the result
ScanWindow(h1, h2) ==
    /\ ret.op = "moonScan"
    /\ ~ret.scan.done
    /\ ret' = [ret EXCEPT !.scan = MoonStep(ret.scan, h1, h2),
                          !.windows = ret.windows + 1,
                          !.out = ScanResult(MoonStep(ret.scan, h1, h2))]
    /\ UNCHANGED <<times, timesDeprecated>>

\* getSunTimeByAzimuth, lines 654..658, for a midnight and an azimuth
\* curve: the loop is entered; iterations counts the iterations made
SearchStart(midnight, curve) ==
    /\ ret = Idle
    /\ ret' = [op |-> "azimuthSearch", midnight |-> midnight, curve |-> curve,
               search |-> AzimuthSearchStart(midnight), iterations |-> 0,
               out |-> Null]
    /\ UNCHANGED <<times, timesDeprecated>>

\* line 672 once the loop has been left
SearchResult(st) ==
    IF AzimuthGoesOn(st.addval) THEN Null ELSE NewDate(st.dateVal)

\* one iteration of the loop of getSunTimeByAzimuth, lines 658..670, the
\* azimuth at dateVal read from the curve and the target being Pi; the
\* iteration that leaves the loop goes on to the result
SearchIteration ==
    /\ ret.op = "azimuthSearch"
    /\ AzimuthGoesOn(ret.search.addval)
    /\ ret' = [ret EXCEPT
                  !.search = AzimuthMove(ret.search, HalfStep(ret.search.addval),
                                         CurveAt(ret.curve, ret.search.dateVal), Pi),
                  !.iterations = ret.iterations + 1,
                  !.out = SearchResult(
                              AzimuthMove(ret.search, HalfStep(ret.search.addval),
                                          CurveAt(ret.curve, ret.search.dateVal), Pi))]
    /\ UNCHANGED <<times, timesDeprecated>>

\* the caller takes the outcome; the next call can be made
Continue ==
    /\ ret # Idle
    /\ ret.op = "moonScan" => ret.scan.done
    /\ ret.op = "azimuthSearch" => ~AzimuthGoesOn(ret.search.addval)
    /\ ret' = Idle
    /\ UNCHANGED <<times, timesDeprecated>>

CallAddTime ==
    \E a \in AngleInputs, riseName \in NameInputs, setName \in NameInputs :
        AddTime(a[1], riseName, setName, a[2])

CallAddDeprecatedTimeName ==
    \E alternateName \in AlternateNameInputs, originalName \in OriginalNameInputs :
        AddDeprecatedTimeName(alternateName, originalName)

CallGetSunTimes ==
    \E d \in DateInputs, lat \in LatInputs, lng \in LngInputs,
       height \in HeightInputs, addDeprecated \in BOOLEAN :
        GetSunTimes(d[1], lat, lng, height, addDeprecated, d[2], d[3])

CallGetSunTime ==
    \E d \in DateInputs, lat \in LatInputs, lng \in LngInputs,
       el \in ElevationInputs, height \in HeightInputs :
        GetSunTime(d[1], lat, lng, el[1], height, el[2], d[2], d[3])

CallGetPosition ==
    \E d \in DateInputs, lat \in LatInputs, lng \in LngInputs :
        GetPosition(d[1], lat, lng)

CallGetSunTimeByAzimuth ==
    \E d \in DateInputs, lat \in LatInputs, lng \in LngInputs,
       az \in AzimuthInputs :
        GetSunTimeByAzimuth(d[1], lat, lng, az[1], az[2], d[3])

CallGetMoonPosition ==
    \E d \in DateInputs, lat \in LatInputs, lng \in LngInputs :
        GetMoonPosition(d[1], lat, lng)

CallGetMoonTimes ==
    \E d \in DateInputs, lat \in LatInputs, lng \in LngInputs :
        GetMoonTimes(d[1], lat, lng, d[2], d[3])

\* the tables, and the queries that read them
Next ==
    \/ CallAddTime
    \/ CallAddDeprecatedTimeName
    \/ CallGetSunTimes
    \/ CallGetSunTime
    \/ Continue

Spec == Init /\ [][Next]_vars

\* the queries that take a location, over the tables as constructed
NextQuery ==
    \/ CallGetPosition
    \/ CallGetSunTimes
    \/ CallGetSunTime
    \/ CallGetSunTimeByAzimuth
    \/ CallGetMoonPosition
    \/ CallGetMoonTimes
    \/ Continue

SpecQuery == Init /\ [][NextQuery]_vars

\* the conversions between instants and julian days
NextJulian ==
    \/ \E ts \in InstantInputs : JulianRoundTrip(ts)
    \/ \E date \in InstantInputs : LegacyRoundTrip(date)
    \/ Continue

SpecJulian == Init /\ [][NextJulian]_vars

\* the choice of the moon phase
NextPhase ==
    \/ \E phaseValue \in PhaseInputs : MoonPhase(phaseValue)
    \/ Continue

SpecPhase == Init /\ [][NextPhase]_vars

\* the window scan of getMoonTimes over arbitrary altitude samples
NextScan ==
    \/ \E h0 \in AltitudeInputs : ScanStart(h0)
    \/ \E h1 \in AltitudeInputs, h2 \in AltitudeInputs : ScanWindow(h1, h2)
    \/ Continue

SpecScan == Init /\ [][NextScan]_vars

CallGetSolarTime ==
    \E d \in DateInputs, s \in SolarInputs : GetSolarTime(d[1], s[1], s[2], d[3])

CallGetMoonData ==
    \E d \in DateInputs, lat \in LatInputs, lng \in LngInputs :
        GetMoonData(d[1], lat, lng)

CallMoonTransit ==
    \E rise \in RiseInputs, set \in SetInputs, lat \in {505000, NaN} :
        MoonTransit(rise, set, lat, 305000, 0)

\* getMoonIllumination over the instants around the new, quarter and full
\* moons
NextIllum ==
    \/ \E dateValue \in IllumInputs : GetMoonIllumination(dateValue)
    \/ Continue

SpecIllum == Init /\ [][NextIllum]_vars

\* every operation of the module: the two that extend the tables, and the
\* ten queries, each with arguments it accepts and arguments it refuses
NextFrame ==
    \/ \E riseName \in {"x", "civilDusk"} : AddTime(50000, riseName, "dawn", TRUE)
    \/ \E alternateName \in {"dawn", "x9"}, originalName \in {"civilDusk", "nope"} :
           AddDeprecatedTimeName(alternateName, originalName)
    \/ \E lat \in {505000, NaN} : GetPosition(Ms(15769, 0, 0), lat, 305000)
    \/ \E lat \in {505000, NaN}, addDeprecated \in BOOLEAN :
           GetSunTimes(Ms(15769, 0, 0), lat, 305000, Missing, addDeprecated, TRUE, 0)
    \/ \E lat \in {505000, NaN} :
           GetSunTime(Ms(15769, 0, 0), lat, 305000, 50000, Missing, TRUE, TRUE, 0)
    \/ \E lat \in {505000, NaN} :
           GetSunTimeByAzimuth(Ms(15769, 0, 0), lat, 305000, Pi, FALSE, 0)
    \/ CallGetSolarTime
    \/ \E lat \in {505000, NaN} : GetMoonPosition(Ms(15769, 0, 0), lat, 305000)
    \/ \E dateValue \in {Ms(15769, 0, 0), NaNMs} : GetMoonIllumination(dateValue)
    \/ \E lat \in {505000, NaN} : GetMoonData(Ms(15769, 0, 0), lat, 305000)
    \/ \E lat \in {505000, NaN} : GetMoonTimes(Ms(15769, 0, 0), lat, 305000, TRUE, 0)
    \/ CallMoonTransit
    \/ Continue

SpecFrame == Init /\ [][NextFrame]_vars

\* getSunTimes over tables extended with the names solarNoon and nadir, as
\* names of an entry and as alias names
NextNoon ==
    \/ \E riseName \in {"x", "solarNoon"}, setName \in {"y", "nadir"} :
           AddTime(50000, riseName, setName, TRUE)
    \/ \E alternateName \in {"x9", "solarNoon", "nadir"},
          originalName \in {"civilDusk", "x"} :
           AddDeprecatedTimeName(alternateName, originalName)
    \/ \E lat \in {505000, 890000}, addDeprecated \in BOOLEAN :
           GetSunTimes(Ms(15769, 0, 0), lat, 305000, Missing, addDeprecated, TRUE, 0)
    \/ Continue

SpecNoon == Init /\ [][NextNoon]_vars

\* the search of getSunTimeByAzimuth over arbitrary azimuth curves
NextAzimuth ==
    \/ \E d \in DateInputs, curve \in CurveInputs :
           SearchStart(SetHours(NewDate(d[1]), 0, d[3]), curve)
    \/ SearchIteration
    \/ Continue

SpecAzimuth == Init /\ [][NextAzimuth]_vars

\* a call that has been made runs on: the loop makes its next iteration
SpecAzimuthFair == SpecAzimuth /\ WF_vars(SearchIteration)

(***************************************************************************)
(* Properties of the tables.                                               *)
(***************************************************************************)
\* a string the identifier pattern refuses: empty, a leading digit, or a
\* character that is no letter, digit, $ or _
NotIdentifier(s) ==
    \/ s = ""
    \/ CharAt(s, 1) \in Digits
    \/ \E i \in 1..Len(s) : CharAt(s, i) \notin IdentChars

\* C1: a call of addTime whose riseName or setName is a rise or set name of
\* the table, or is refused by the identifier pattern, returns false and
\* leaves times and timesDeprecated as they were
C1_AddTimeRejects ==
    [][(/\ ret'.op = "addTime"
        /\ \/ ret'.riseName \in RiseSetNames(times)
           \/ ret'.setName \in RiseSetNames(times)
           \/ NotIdentifier(ret'.riseName)
           \/ NotIdentifier(ret'.setName))
       => (/\ ret'.value = FALSE
           /\ times' = times
           /\ timesDeprecated' = timesDeprecated)]_vars

\* C1 witness: addTime refused a valid new setName because its riseName is
\* the name of an entry an earlier addTime added
C1_Witness ==
    /\ ret.op = "addTime"
    /\ ret.value = FALSE
    /\ ret.riseName = "x"
    /\ ret.setName = "dawn"
    /\ Len(times) > NumBuiltin
    /\ "x" \in RiseSetNames(times)

\* C2: addDeprecatedTimeName returns true only for a canonical name that is
\* a rise or set name of the table, and every entry of timesDeprecated
\* names a canonical name that is in the table
C2_AliasCanonicalExists ==
    /\ (ret.op = "addDeprecatedTimeName" /\ ret.value)
           => ret.originalName \in RiseSetNames(times)
    /\ \A k \in 1..Len(timesDeprecated) :
           timesDeprecated[k][2] \in RiseSetNames(times)

\* C2 witness: an alias was accepted for the canonical name of an entry
\* that addTime added
C2_Witness ==
    /\ ret.op = "addDeprecatedTimeName"
    /\ ret.value
    /\ ret.originalName = "x"
    /\ Len(times) > NumBuiltin
    /\ timesDeprecated[Len(timesDeprecated)] = <<ret.alternateName, "x">>

(***************************************************************************)
(* Properties of getSunTimes and getSunTime.  They are stated on the       *)
(* outcome held by ret, for the arguments ret records.                     *)
(***************************************************************************)
\* what lines 494..504 compute for the call ret records
SunCallDay ==
    SunDay(NoonOf(ret.dateValue, ret.inUTC, ret.tz), ret.lat, ret.lng,
           Default(ret.height, 0))

\* the hour-angle equation of a table angle has a solution
HasSolution(c, sa) ==
    ~IsNaNJ(getSetJ(rad(FAdd(sa, c.dh)), c.lw, c.phi, c.dec, c.n, c.M, c.L))

SunTimesReturned == ret.op = "getSunTimes" /\ ~ret.out.threw

\* C3: getSunTimes with a latitude and a longitude does not throw; the rise
\* and set records of an entry without solution have valid = false, the set
\* record the julian day Jnoon + 0.5 and the rise record Jnoon - 0.5; the
\* records of an entry with a solution have valid = true
C3_PolarFallback ==
    (ret.op = "getSunTimes" /\ ~isNaN(ret.lat) /\ ~isNaN(ret.lng)) =>
        /\ ~ret.out.threw
        /\ \A i \in 1..Len(times) :
               LET setRec == ret.out.value[times[i].setName]
                   riseRec == ret.out.value[times[i].riseName]
               IN  IF HasSolution(SunCallDay, times[i].angle)
                   THEN setRec.valid /\ riseRec.valid
                   ELSE /\ ~setRec.valid
                        /\ ~riseRec.valid
                        /\ setRec.julian = JAdd(SunCallDay.Jnoon, HalfDay)
                        /\ riseRec.julian = JSub(SunCallDay.Jnoon, HalfDay)

\* C5: the rise and set julian days of every entry of a getSunTimes result,
\* and of the pair of getSunTime, are equidistant from Jnoon (two NaN
\* differences are taken as equal here)
C5_Symmetric ==
    /\ SunTimesReturned =>
           \A i \in 1..Len(times) :
               JSub(SunCallDay.Jnoon, ret.out.value[times[i].riseName].julian)
                   = JSub(ret.out.value[times[i].setName].julian, SunCallDay.Jnoon)
    /\ (ret.op = "getSunTime" /\ ~ret.out.threw) =>
           JSub(SunCallDay.Jnoon, ret.out.value.rise.julian)
               = JSub(ret.out.value.set.julian, SunCallDay.Jnoon)

\* what getSunTimes returns for the arguments of the getSunTime call ret
\* records, with the tables as they are
SunTimesForCall(addDeprecated) ==
    getSunTimes(times, timesDeprecated, ret.dateValue, ret.lat, ret.lng,
                ret.height, addDeprecated, ret.inUTC, ret.tz)

SunTimeAtZero ==
    ret.op = "getSunTime" /\ ~ret.out.threw /\ ret.elevationAngle = 0

\* C8 as stated: getSunTime with elevation angle 0 returns the rise and set
\* instants that getSunTimes returns as sunriseStart and sunsetEnd
C8_SameAsSunriseStart ==
    SunTimeAtZero =>
        \A addDeprecated \in BOOLEAN :
            /\ ret.out.value.rise.value = SunTimesForCall(addDeprecated).value.sunriseStart.value
            /\ ret.out.value.set.value = SunTimesForCall(addDeprecated).value.sunsetEnd.value

\* C8 amended: the instants are those of sunriseStart and sunsetEnd when
\* getSunTimes reports these valid; when it reports them invalid (no
\* solution for -0.833 degrees plus the dip of the horizon) getSunTime
\* returns invalid dates with valid = false, while sunriseStart and
\* sunsetEnd hold the fallback instants
C8_SameWhenValid ==
    SunTimeAtZero =>
        \A addDeprecated \in BOOLEAN :
            LET st == SunTimesForCall(addDeprecated).value
                rise == ret.out.value.rise
                set == ret.out.value.set
            IN  IF st.sunriseStart.valid
                THEN /\ st.sunsetEnd.valid /\ rise.valid /\ set.valid
                     /\ rise.value = st.sunriseStart.value
                     /\ set.value = st.sunsetEnd.value
                     /\ rise.ts = st.sunriseStart.ts
                     /\ set.ts = st.sunsetEnd.ts
                ELSE /\ ~st.sunsetEnd.valid /\ ~rise.valid /\ ~set.valid
                     /\ IsNaNMs(rise.value) /\ IsNaNMs(set.value)
                     /\ ~IsNaNMs(st.sunriseStart.value)
                     /\ ~IsNaNMs(st.sunsetEnd.value)

\* C8 witness: getSunTime at angle 0 for an observer 2000 m up, the day
\* taken in local time, returned a valid pair, the table holding an added
\* entry
C8_Witness ==
    /\ SunTimeAtZero
    /\ ret.height = 2000 * Scale
    /\ ~ret.inUTC
    /\ ret.out.value.rise.valid
    /\ Len(times) > NumBuiltin

\* the canonical name of the last entry of dep registered for alias a
LastCanonical(dep, a) ==
    dep[CHOOSE k \in 1..Len(dep) :
            dep[k][1] = a /\ \A j \in (k + 1)..Len(dep) : dep[j][1] # a][2]

\* C9: with addDeprecated, every alias name of timesDeprecated maps to a
\* record marked deprecated that has the value, ts, julian day and valid of
\* the record of the canonical name it was last registered for; without
\* addDeprecated the result holds the names of the table, solarNoon and
\* nadir only, and no record marked deprecated
C9_AliasRecords ==
    SunTimesReturned =>
        IF ret.addDeprecated
        THEN \A a \in AliasNames(timesDeprecated) :
                 /\ a \in DOMAIN ret.out.value
                 /\ "deprecated" \in DOMAIN ret.out.value[a]
                 /\ ret.out.value[a].deprecated
                 /\ LET org == ret.out.value[LastCanonical(timesDeprecated, a)]
                        rec == ret.out.value[a]
                    IN  /\ rec.value = org.value
                        /\ rec.ts = org.ts
                        /\ rec.julian = org.julian
                        /\ rec.valid = org.valid
        ELSE /\ DOMAIN ret.out.value = RiseSetNames(times) \cup {"solarNoon", "nadir"}
             /\ \A n \in DOMAIN ret.out.value : "deprecated" \notin DOMAIN ret.out.value[n]

\* C9 witness: "dawn" is registered twice, last for civilDusk, and the
\* result maps it to the instant of civilDusk, not of civilDawn
C9_Witness ==
    /\ SunTimesReturned
    /\ ret.addDeprecated
    /\ Len(timesDeprecated) > NumBuiltinAlias
    /\ timesDeprecated[1] = <<"dawn", "civilDawn">>
    /\ timesDeprecated[Len(timesDeprecated)] = <<"dawn", "civilDusk">>
    /\ ret.out.value["dawn"].ts = ret.out.value["civilDusk"].ts
    /\ ret.out.value["dawn"].ts # ret.out.value["civilDawn"].ts

(***************************************************************************)
(* Properties of the conversions and of the phase table.                   *)
(***************************************************************************)
\* b - a in units of 2^-12 ms, for two instants less than a day apart
\* (2 ms or more count as 2 ms)
MsDistance(a, b) ==
    LET ms == (b.day - a.day) * dayMs + (b.ms - a.ms)
    IN  Max(0 - 2, Min(2, ms)) * SubUnits + (b.sub - a.sub)

PhaseClaimers(phaseValue) ==
    {i \in 1..Len(moonCycles) : PhaseTest(phaseValue, moonCycles[i])}

\* first from = 0, each to is the next from, last to = 1
PhaseTableContiguous ==
    /\ moonCycles[1].from = <<0, 0, 0, 0>>
    /\ \A i \in 1..(Len(moonCycles) - 1) : moonCycles[i].to = moonCycles[i + 1].from
    /\ moonCycles[Len(moonCycles)].to = <<1, 0, 0, 0>>

\* C6 as stated: the table is contiguous from 0 to 1, and a phase value
\* that is a bound of the table passes the test of exactly one element
C6_OneBucketAtBound ==
    /\ PhaseTableContiguous
    /\ (ret.op = "moonPhase" /\ ret.phaseValue \in PhaseBounds)
           => Cardinality(PhaseClaimers(ret.phaseValue)) = 1

\* C6 amended: the table is contiguous from 0 to 1; a phase value that is
\* the to of element i and the from of element i + 1 passes the test of
\* both and the loop picks element i; any other phase value from 0 to 1
\* passes the test of one element, which the loop picks; NaN passes none
C6_LowerBucketAtBound ==
    /\ PhaseTableContiguous
    /\ ret.op = "moonPhase" =>
           IF \E i \in 1..(Len(moonCycles) - 1) : moonCycles[i].to = ret.phaseValue
           THEN \E i \in 1..(Len(moonCycles) - 1) :
                    /\ moonCycles[i].to = ret.phaseValue
                    /\ PhaseClaimers(ret.phaseValue) = {i, i + 1}
                    /\ ret.phase = i
           ELSE IF ret.phaseValue = PhaseNaN
           THEN PhaseClaimers(ret.phaseValue) = {} /\ ret.phase = 0
           ELSE PhaseClaimers(ret.phaseValue) = {ret.phase}

\* C6 witness: 0.216136806691289, the bound of waxingCrescentMoon and
\* firstQuarterMoon, was given waxingCrescentMoon
C6_Witness ==
    /\ ret.op = "moonPhase"
    /\ ret.phaseValue = <<0, 21613, 68066, 91289>>
    /\ ret.phase = 2
    /\ moonCycles[ret.phase].id = "waxingCrescentMoon"

(***************************************************************************)
(* The window scan of getMoonTimes.                                        *)
(***************************************************************************)
\* the scan has recorded a crossing in v
Found(v) == v # Missing

\* C10: the scan makes at most 13 windows (26 iterations of the hour
\* counter), and it is left as soon as both a rise and a set have been
\* found
C10_ScanStopsWhenBothFound ==
    ret.op = "moonScan" =>
        /\ ret.windows <= 13
        /\ ret.scan.i <= 27
        /\ (Found(ret.scan.rise) /\ Found(ret.scan.set)) => ret.scan.done

\* the part of C10 that holds of the code: the scan is bounded, it is left
\* after the thirteenth window at the latest, and it is left early exactly
\* when rise and set are both truthy
ScanBounded ==
    ret.op = "moonScan" =>
        /\ ret.windows <= 13
        /\ ret.scan.i = 2 * ret.windows + (IF ret.scan.done /\ ret.scan.i <= 26 THEN 0 - 1 ELSE 1)
        /\ ret.windows = 13 => ret.scan.done
        /\ (ret.scan.done /\ ret.scan.i <= 26)
               <=> (ret.windows > 0 /\ Truthy(ret.scan.rise) /\ Truthy(ret.scan.set))

\* a scan in which a rise at offset 0 and a set have both been found and
\* the loop goes on
ScanGoesOnAfterBoth ==
    /\ ret.op = "moonScan"
    /\ ret.scan.rise = 0
    /\ Found(ret.scan.set)
    /\ ~ret.scan.done
(***************************************************************************)
(* Validation of the location arguments.                                   *)
(***************************************************************************)
LocationQueries ==
    {"getPosition", "getSunTimes", "getSunTime", "getSunTimeByAzimuth",
     "getMoonPosition", "getMoonTimes"}

\* the error of the first check of ret.op that the arguments of the call
\* fail, "" when they pass all of them
ArgumentError ==
    IF ret.op = "getSunTimeByAzimuth" /\ isNaN(ret.azimuth) THEN "azimuth missing"
    ELSE IF isNaN(ret.lat) THEN "latitude missing"
    ELSE IF isNaN(ret.lng) THEN "longitude missing"
    ELSE IF ret.op = "getSunTime" /\ isNaN(ret.elevationAngle)
    THEN "elevationAngle missing"
    ELSE ""

\* C4: a call of one of the six queries with a NaN or missing latitude or
\* longitude (or elevation angle of getSunTime, or azimuth of
\* getSunTimeByAzimuth) throws: its outcome is the error of the first check
\* the arguments fail and nothing else, whatever the other arguments are
C4_ThrowsOnMissingArgument ==
    (ret.op \in LocationQueries /\ ArgumentError # "")
        => ret.out = Threw(ArgumentError)

\* getSunTimeByAzimuth called with a target azimuth and a latitude but no
\* longitude has thrown
C4_Witness ==
    /\ ret.op = "getSunTimeByAzimuth"
    /\ ~isNaN(ret.azimuth)
    /\ ~isNaN(ret.lat)
    /\ ret.lng = Missing
    /\ ret.out = Threw("longitude missing")
(***************************************************************************)
(* The tables are written by the two extension calls only.                 *)
(***************************************************************************)
QueryOps ==
    {"getPosition", "getSunTimes", "getSunTime", "getSunTimeByAzimuth",
     "getSolarTime", "getMoonPosition", "getMoonIllumination", "getMoonData",
     "getMoonTimes", "moonTransit"}

\* C11: a step that changes the event table or the alias table is a call
\* of addTime or addDeprecatedTimeName; a query, whether it returns or
\* throws, leaves both tables as they were; and a successful addTime makes
\* the event table one entry longer and leaves the entries it had unchanged
C11_TablesWrittenOnlyByExtension ==
    [][/\ (times' # times \/ timesDeprecated' # timesDeprecated)
           => ret'.op \in {"addTime", "addDeprecatedTimeName"}
       /\ ret'.op \in QueryOps
           => times' = times /\ timesDeprecated' = timesDeprecated
       /\ (ret'.op = "addTime" /\ ret'.value)
           => /\ Len(times') = Len(times) + 1
              /\ SubSeq(times', 1, Len(times)) = times]_vars

\* a query has thrown over tables that addTime has extended
C11_Witness ==
    /\ ret.op = "getMoonData"
    /\ ret.out.threw
    /\ Len(times) = NumBuiltin + 1
    /\ Len(timesDeprecated) < NumBuiltinAlias

(***************************************************************************)
(* The instants getMoonTimes reports.                                      *)
(***************************************************************************)
\* instant v lies in the 24 hours that begin at midnight
WithinDayFrom(midnight, v) ==
    /\ ~MsLt(v, midnight)
    /\ ~MsLt(MsAdd(midnight, Ms(1, 0, 0)), v)

\* C12: every rise and set instant that getMoonTimes reports lies no
\* earlier than the midnight that begins the day of the input and no later
\* than 24 hours after it
C12_WithinCalendarDay ==
    (ret.op = "getMoonTimes" /\ ~ret.out.threw)
        => /\ IsNaNMs(ret.out.value.rise)
              \/ WithinDayFrom(MidnightOf(ret.dateValue, ret.inUTC, ret.tz),
                               ret.out.value.rise)
           /\ IsNaNMs(ret.out.value.set)
              \/ WithinDayFrom(MidnightOf(ret.dateValue, ret.inUTC, ret.tz),
                               ret.out.value.set)

\* the offsets the scan assigns lie between 0 and 26 hours: the last
\* window is centred at hour 25
ScanOffsetsBounded ==
    ret.op = "moonScan"
        => /\ Found(ret.scan.rise)
                => 0 <= ret.scan.rise /\ ret.scan.rise <= 26 * Scale
           /\ Found(ret.scan.set)
                => 0 <= ret.scan.set /\ ret.scan.set <= 26 * Scale

(***************************************************************************)
(* The predictions of getMoonIllumination.                                 *)
(***************************************************************************)
PredictionNames == <<"newMoon", "firstQuarter", "fullMoon", "thirdQuarter">>

IllumReturned == ret.op = "getMoonIllumination" /\ ~ret.out.threw

\* the four predicted instants of the call that has returned
Predicted(i) == ret.out.value.next[PredictionNames[i]].value

\* C13: next.value is the least of the four predicted instants, next.type
\* names the prediction that equals it and no other does, the four being
\* pairwise distinct
C13_NextIsMinimum ==
    IllumReturned
        => /\ \A i \in 1..4 : ~MsLt(Predicted(i), ret.out.value.next.value)
           /\ \A i \in 1..4 :
                  (PredictionNames[i] = ret.out.value.next.type)
                      <=> (Predicted(i) = ret.out.value.next.value)
           /\ \E i \in 1..4 : PredictionNames[i] = ret.out.value.next.type
           /\ \A i \in 1..4, j \in 1..4 : i # j => Predicted(i) # Predicted(j)

\* a call whose next event is the third quarter, the last of the type chain
C13_Witness ==
    /\ IllumReturned
    /\ ret.out.value.next.type = "thirdQuarter"
    /\ ret.out.value.next.value = ret.out.value.next.thirdQuarter.value
    /\ MsLt(ret.dateValue, firstNewMoon2000)

(***************************************************************************)
(* The flags of getMoonTimes.                                              *)
(***************************************************************************)
ScanLeft == ret.op = "moonScan" /\ ret.scan.done

\* C14: when the scan has found neither a rise nor a set, exactly one of
\* alwaysUp and alwaysDown is true, alwaysUp when the vertex altitude ye
\* is positive and alwaysDown when it is not; when a rise or a set has been
\* found both flags are false; the two flags are never both true
C14_ExactlyOneFlag ==
    ScanLeft
        => /\ (~Found(ret.scan.rise) /\ ~Found(ret.scan.set))
                => /\ ret.out.alwaysUp # ret.out.alwaysDown
                   /\ ret.out.alwaysUp <=> (~isNaN(ret.scan.ye) /\ ret.scan.ye > 0)
                   /\ ret.out.alwaysDown <=> ~(~isNaN(ret.scan.ye) /\ ret.scan.ye > 0)
           /\ (Found(ret.scan.rise) \/ Found(ret.scan.set))
                => ~ret.out.alwaysUp /\ ~ret.out.alwaysDown
           /\ ~(ret.out.alwaysUp /\ ret.out.alwaysDown)

\* the flags are never both true, whatever the scan has found
FlagsNeverBoth ==
    ScanLeft => ~(ret.out.alwaysUp /\ ret.out.alwaysDown)

\* the flags are as C14 says when the last window has a vertex (ye is a
\* number) and no crossing has been found at offset 0
FlagsWhenVertexIsNumber ==
    (ScanLeft /\ ~isNaN(ret.scan.ye) /\ ret.scan.rise # 0 /\ ret.scan.set # 0)
        => /\ (~Found(ret.scan.rise) /\ ~Found(ret.scan.set))
                => /\ ret.out.alwaysUp <=> ret.scan.ye > 0
                   /\ ret.out.alwaysDown <=> ret.scan.ye <= 0
           /\ (Found(ret.scan.rise) \/ Found(ret.scan.set))
                => ~ret.out.alwaysUp /\ ~ret.out.alwaysDown

\* neither found, the last window without vertex, and both flags false
FlagsBothFalse ==
    /\ ScanLeft
    /\ ~Found(ret.scan.rise) /\ ~Found(ret.scan.set)
    /\ isNaN(ret.scan.ye)
    /\ ~ret.out.alwaysUp /\ ~ret.out.alwaysDown

(***************************************************************************)
(* The crossings of one window of getMoonTimes.  In a step of ScanWindow   *)
(* ret.scan is the state of the loop before the window (h0 is its starting *)
(* altitude, i its centre) and ret'.scan the state after it.               *)
(***************************************************************************)
\* of the roots x1 <= x2, the one within [-1, 1] when there is one
RootInRange(x1, x2) == IF Abs(x1) <= Scale THEN x1 ELSE x2

C16_TwoRootWindow ==
    [][(ret.op = "moonScan" /\ ret'.op = "moonScan" /\ ret'.scan.roots = 2)
           => /\ ret'.scan.x1 <= ret'.scan.x2
              /\ IF ret'.scan.ye < 0
                 THEN /\ ret'.scan.set = ret.scan.i * Scale + ret'.scan.x1
                      /\ ret'.scan.rise = ret.scan.i * Scale + ret'.scan.x2
                 ELSE /\ ret'.scan.rise = ret.scan.i * Scale + ret'.scan.x1
                      /\ ret'.scan.set = ret.scan.i * Scale + ret'.scan.x2]_vars

\* a window below the horizon at its vertex with two different roots: the
\* moon sets and rises again within it
C16_Witness ==
    /\ ret.op = "moonScan"
    /\ ret.scan.roots = 2
    /\ ret.scan.ye < 0
    /\ ret.scan.x1 < ret.scan.x2
    /\ ret.scan.set < ret.scan.rise

(***************************************************************************)
(* The search of getSunTimeByAzimuth.                                      *)
(***************************************************************************)
Searching == ret.op = "azimuthSearch"

\* the iterations every search makes: the least k with dayMs / 2^k <= 200
SearchIterations ==
    CHOOSE k \in 1..30 : dayMs \div 2^k < 200 /\ dayMs \div 2^(k - 1) > 200

\* C17: the search ends for every start instant and every azimuth curve:
\* its step is one day halved once per iteration made, it goes on exactly
\* while the step is above 200 ms, and it has ended after a number of
\* iterations that is the same for all inputs
C17_SearchTerminates ==
    /\ [](Searching
            => /\ ret.search.addval.ms * 2^ret.iterations
                      + (ret.search.addval.sub * 2^ret.iterations) \div SubUnits = dayMs
               /\ (ret.search.addval.sub * 2^ret.iterations) % SubUnits = 0
               /\ AzimuthGoesOn(ret.search.addval) <=> ret.iterations < SearchIterations
               /\ (ret.out # Null) <=> ret.iterations = SearchIterations)
    /\ Searching ~> (Searching /\ ret.iterations = SearchIterations /\ ret.out # Null)

\* a search over a NaN azimuth has ended, with a step of at most 200 ms
C17_Witness ==
    /\ Searching
    /\ ret.curve.kind = "nan"
    /\ ret.out # Null
    /\ ret.iterations = 19
    /\ ret.search.addval.ms < 200

\* C18: the instant getSunTimeByAzimuth returns lies within the local
\* calendar day of the input date, between its midnight and 24 hours later
C18_WithinSearchedDay ==
    (ret.op = "getSunTimeByAzimuth" /\ ~ret.out.threw)
        => WithinDayFrom(SetHours(NewDate(ret.dateValue), 0, ret.tz),
                         ret.out.value)

\* the instant returned lies after the midnight of the input date and less
\* than two days after it, for every azimuth curve
SearchWithinTwoDays ==
    (Searching /\ ret.out # Null)
        => /\ MsLt(ret.midnight, ret.out)
           /\ MsLt(ret.out, MsAdd(ret.midnight, Ms(2, 0, 0)))

\* a search that has ended in the day after the day of the input date
SearchEndsNextDay ==
    /\ Searching
    /\ ret.out # Null
    /\ MsLt(MsAdd(ret.midnight, Ms(1, 0, 0)), ret.out)

\* C19: each of the four predicted instants is strictly later than the
\* query instant and at most one synodic month after it, and the predicted
\* new moon lies a whole number of synodic months from firstNewMoon2000
C19_PredictionsAhead ==
    IllumReturned
        => /\ \A i \in 1..4 :
                  /\ MsLt(ret.dateValue, Predicted(i))
                  /\ ~MsLt(MsAdd(ret.dateValue, lunarDaysMs), Predicted(i))
           /\ LunarRem(MsSub(Predicted(1), firstNewMoon2000)) = Ms(0, 0, 0)

\* what holds of every call: no prediction lies before the query instant
\* or more than a synodic month after it, the new moon lies strictly after
\* it and a whole number of synodic months from firstNewMoon2000
PredictionsNotBefore ==
    IllumReturned
        => /\ \A i \in 1..4 :
                  /\ ~MsLt(Predicted(i), ret.dateValue)
                  /\ ~MsLt(MsAdd(ret.dateValue, lunarDaysMs), Predicted(i))
           /\ MsLt(ret.dateValue, Predicted(1))
           /\ LunarRem(MsSub(Predicted(1), firstNewMoon2000)) = Ms(0, 0, 0)

\* a call at the instant of a full moon, which is returned as the next one
PredictionAtQuery ==
    /\ IllumReturned
    /\ ret.out.value.next.fullMoon.value = ret.dateValue
    /\ ret.out.value.next.type = "fullMoon"

(***************************************************************************)
(* The angle of getSunTime.                                                *)
(***************************************************************************)
SunTimeReturned == ret.op = "getSunTime" /\ ~ret.out.threw

\* what getSunTimes returns, for the arguments of the getSunTime call ret
\* records, of a table whose one entry has the angle sa (in degrees)
EntryTimes(sa) ==
    getSunTimes(<<TimeDef(sa, "rise", "set")>>, <<>>, ret.dateValue, ret.lat,
                ret.lng, ret.height, FALSE, ret.inUTC, ret.tz).value

\* the rise and set of the call are those of the table entry of sa degrees
\* when that entry has a solution
SameAsEntry(sa) ==
    EntryTimes(sa).rise.valid
        => /\ ret.out.value.rise.julian = EntryTimes(sa).rise.julian
           /\ ret.out.value.set.julian = EntryTimes(sa).set.julian
           /\ ret.out.value.rise.ts = EntryTimes(sa).rise.ts
           /\ ret.out.value.set.ts = EntryTimes(sa).set.ts

\* C20: getSunTime converts the requested angle to radians once: called
\* with an angle a in degrees it returns the rise and set that a table
\* entry of a - 0.833 degrees gives in getSunTimes, and called with an
\* angle r in radians it returns what it returns for r * 180 / pi degrees
C20_AngleConvertedOnce ==
    SunTimeReturned
        => IF ret.degree
           THEN SameAsEntry(ret.elevationAngle - 8330)
           ELSE ret.out
                    = getSunTime(ret.dateValue, ret.lat, ret.lng,
                                 degr(ret.elevationAngle), ret.height, TRUE,
                                 ret.inUTC, ret.tz)

\* what the program does: the angle in radians, as a number, less 0.833 is
\* taken for degrees
SunTimeOfRadiansAsDegrees ==
    SunTimeReturned
        => SameAsEntry((IF ret.degree THEN rad(ret.elevationAngle)
                        ELSE ret.elevationAngle) - 8330)

\* a call with 5 degrees has returned a valid pair, which is not that of
\* the table entry of 4.167 degrees
SunTimeOfDegreesDiffers ==
    /\ SunTimeReturned
    /\ ret.degree
    /\ ret.out.value.rise.valid
    /\ EntryTimes(ret.elevationAngle - 8330).rise.valid
    /\ ret.out.value.rise.ts # EntryTimes(ret.elevationAngle - 8330).rise.ts

\* the second part of C20 alone: a call in radians returns what the call
\* with the same angle in degrees returns
RadiansSameAsDegrees ==
    (SunTimeReturned /\ ~ret.degree)
        => ret.out = getSunTime(ret.dateValue, ret.lat, ret.lng,
                                degr(ret.elevationAngle), ret.height, TRUE,
                                ret.inUTC, ret.tz)
(***************************************************************************)
(* The crossings the scan of getMoonTimes has found, and the result.       *)
(***************************************************************************)
\* C21: once the scan is left, a rise that some window has found is
\* reported as an instant and not as NaN, and so is a set, also when the
\* offset found is 0 hours; and while the scan goes on, a rise and a set
\* have not both been found
C21_FoundCrossingReported ==
    ret.op = "moonScan" =>
        IF ret.scan.done
        THEN /\ Found(ret.scan.rise) => ~IsNaNMs(ret.out.rise)
             /\ Found(ret.scan.set) => ~IsNaNMs(ret.out.set)
        ELSE ~(Found(ret.scan.rise) /\ Found(ret.scan.set))

\* what the program does, lines 865 and 869..872: an offset is reported
\* exactly when it is truthy, as the instant that many hours after the start
ReportedWhenTruthy ==
    (ret.op = "moonScan" /\ ret.scan.done)
        => /\ ret.out.rise
                  = (IF Truthy(ret.scan.rise)
                     THEN NewDate(hoursLater(Ms(15769, 0, 0), ret.scan.rise))
                     ELSE NaNMs)
           /\ ret.out.set
                  = (IF Truthy(ret.scan.set)
                     THEN NewDate(hoursLater(Ms(15769, 0, 0), ret.scan.set))
                     ELSE NaNMs)

\* away from offset 0 the claim holds: a crossing found at another offset
\* is reported
FoundAwayFromStartReported ==
    (ret.op = "moonScan" /\ ret.scan.done)
        => /\ (Found(ret.scan.rise) /\ ret.scan.rise # 0) => ~IsNaNMs(ret.out.rise)
           /\ (Found(ret.scan.set) /\ ret.scan.set # 0) => ~IsNaNMs(ret.out.set)

\* a scan has found a rise at offset 0 and reports NaN for it
RiseAtStartReportedNaN ==
    /\ ret.op = "moonScan"
    /\ ret.scan.done
    /\ ret.scan.rise = 0
    /\ IsNaNMs(ret.out.rise)

\* a scan has found a set at offset 0 and reports NaN for it
SetAtStartReportedNaN ==
    /\ ret.op = "moonScan"
    /\ ret.scan.done
    /\ ret.scan.set = 0
    /\ IsNaNMs(ret.out.set)

(***************************************************************************)
(* The names of the event table and of the alias table.                    *)
(***************************************************************************)
\* the rise and set names of the table, in the order getSunTimes writes
\* them: the set name of an entry, then its rise name
NameList(tbl) ==
    [k \in 1..(2 * Len(tbl)) |->
        IF k % 2 = 1 THEN tbl[(k + 1) \div 2].setName ELSE tbl[k \div 2].riseName]

\* C22: the rise and set names of the event table are pairwise distinct,
\* the rise name and the set name of one entry included
C22_NamesPairwiseDistinct ==
    \A j, k \in 1..(2 * Len(times)) :
        j # k => NameList(times)[j] # NameList(times)[k]

\* what the loop of lines 434..439 does ensure: the names of two different
\* entries are distinct
NamesDistinctAcrossEntries ==
    \A i, j \in 1..Len(times) :
        i # j => {times[i].riseName, times[i].setName}
                     \cap {times[j].riseName, times[j].setName} = {}

\* addTime has accepted an entry whose rise name is its set name
SameNameAccepted ==
    /\ ret.op = "addTime"
    /\ ret.value
    /\ ret.riseName = ret.setName
    /\ times[Len(times)].riseName = times[Len(times)].setName

\* getSunTimes has returned fewer records than the table has names: the
\* rise record of the entry has replaced its set record
SameNameOneRecord ==
    /\ SunTimesReturned
    /\ ~ret.addDeprecated
    /\ times[Len(times)].riseName = times[Len(times)].setName
    /\ Cardinality(DOMAIN ret.out.value) < 2 * Len(times) + 2

\* C23: no alias name of the alias table is a rise or set name of the
\* event table; addDeprecatedTimeName returns false for an alias name that
\* is a rise or set name of the table, and after a successful addTime no
\* alias carries the rise name or the set name it added
C23_AliasNamesApart ==
    /\ AliasNames(timesDeprecated) \cap RiseSetNames(times) = {}
    /\ (ret.op = "addDeprecatedTimeName" /\ ret.alternateName \in RiseSetNames(times))
           => ~ret.value
    /\ (ret.op = "addTime" /\ ret.value)
           => {ret.riseName, ret.setName} \cap AliasNames(timesDeprecated) = {}

\* C23 witness: addTime has added an entry whose set name "dawn" was an
\* alias name, and the alias is gone
C23_Witness ==
    /\ ret.op = "addTime"
    /\ ret.value
    /\ ret.riseName = "x"
    /\ ret.setName = "dawn"
    /\ "dawn" \in AliasNames(InitTimesDeprecated)
    /\ "dawn" \notin AliasNames(timesDeprecated)
    /\ Len(timesDeprecated) = NumBuiltinAlias - 1

\* an alias name that is a name of the event table has been refused
AliasOfEventNameRefused ==
    /\ ret.op = "addDeprecatedTimeName"
    /\ ret.alternateName = "civilDusk"
    /\ ret.originalName = "civilDusk"
    /\ ~ret.value

(***************************************************************************)
(* solarNoon and nadir in the result of getSunTimes.                       *)
(***************************************************************************)
\* C24: the solarNoon and nadir records that getSunTimes returns are those
\* of the solar transit and of half a day after it, whatever entries and
\* aliases the tables hold
C24_NoonAndNadirKept ==
    SunTimesReturned =>
        /\ ret.out.value.solarNoon = SunNoonRecords(SunCallDay, Len(times)).solarNoon
        /\ ret.out.value.nadir = SunNoonRecords(SunCallDay, Len(times)).nadir
        /\ ret.out.value.nadir.julian = JAdd(ret.out.value.solarNoon.julian, HalfDay)

\* the table or the alias table holds one of the names solarNoon and nadir
NoonNameRegistered ==
    {"solarNoon", "nadir"} \cap (RiseSetNames(times) \cup AliasNames(timesDeprecated)) # {}

\* when neither name is in the tables, or when it is an alias only and
\* the call is made without addDeprecated, the two records are as C24 says
NoonAndNadirKeptUnlessNamed ==
    (/\ SunTimesReturned
     /\ {"solarNoon", "nadir"} \cap RiseSetNames(times) = {}
     /\ ret.addDeprecated => ~NoonNameRegistered)
        => /\ ret.out.value.solarNoon
                  = SunNoonRecords(SunCallDay, Len(times)).solarNoon
           /\ ret.out.value.nadir = SunNoonRecords(SunCallDay, Len(times)).nadir
           /\ ret.out.value.nadir.julian
                  = JAdd(ret.out.value.solarNoon.julian, HalfDay)

\* the record nadir of a result is the set record of an entry addTime added
NadirIsEntryRecord ==
    /\ SunTimesReturned
    /\ times[Len(times)].setName = "nadir"
    /\ "elevation" \in DOMAIN ret.out.value.nadir
    /\ ret.out.value.nadir.elevation = 50000
    /\ ret.out.value.nadir.julian # JAdd(SunCallDay.Jnoon, HalfDay)

\* the record solarNoon of a result is the copy of civilDusk an alias made
NoonIsAliasRecord ==
    /\ SunTimesReturned
    /\ ret.addDeprecated
    /\ "deprecated" \in DOMAIN ret.out.value.solarNoon
    /\ ret.out.value.solarNoon.julian = ret.out.value.civilDusk.julian
    /\ ret.out.value.solarNoon.julian # SunCallDay.Jnoon

(***************************************************************************)
(* The records of an entry do not depend on the rest of the table.         *)
(***************************************************************************)
\* a record of a result without its field pos
WithoutPos(rec) == [f \in DOMAIN rec \ {"pos"} |-> rec[f]]

\* the table in the opposite order
Reversed(tbl) == [k \in 1..Len(tbl) |-> tbl[Len(tbl) + 1 - k]]

\* what getSunTimes returns for the arguments of the call ret records, of
\* the table tbl and no aliases
SunTimesOfTable(tbl) ==
    getSunTimes(tbl, <<>>, ret.dateValue, ret.lat, ret.lng, ret.height, FALSE,
                ret.inUTC, ret.tz).value

\* the records of the names of entry in the result ret records are, but
\* for pos, those of the result other
SameEntryRecords(entry, other) ==
    /\ WithoutPos(ret.out.value[entry.riseName]) = WithoutPos(other[entry.riseName])
    /\ WithoutPos(ret.out.value[entry.setName]) = WithoutPos(other[entry.setName])

\* C25: the records getSunTimes returns for an entry of the table have the
\* value, ts, julian day, valid, elevation and name that it returns for the
\* table that holds this entry alone, and for the table in the opposite
\* order: pos is the only field that depends on the place of the entry and
\* on the other entries
C25_EntryIndependent ==
    SunTimesReturned =>
        \A i \in 1..Len(times) :
            /\ SameEntryRecords(times[i], SunTimesOfTable(<<times[i]>>))
            /\ SameEntryRecords(times[i], SunTimesOfTable(Reversed(times)))

\* C25 witness: a result over a table that addTime has extended holds the
\* valid records of the last entry, whose set record has a pos that is not
\* the pos it has when the entry is alone or the table reversed
C25_Witness ==
    /\ SunTimesReturned
    /\ Len(times) > NumBuiltin
    /\ times[Len(times)].riseName # times[Len(times)].setName
    /\ ret.out.value[times[Len(times)].setName].valid
    /\ ret.out.value[times[Len(times)].setName].pos
           # SunTimesOfTable(<<times[Len(times)]>>)[times[Len(times)].setName].pos
    /\ ret.out.value[times[Len(times)].setName].pos
           # SunTimesOfTable(Reversed(times))[times[Len(times)].setName].pos


====
